---------------------------- MODULE Spec2Model ----------------------------
(* A model of the bindexer historical backfill engine:                      *)
(*   - loopThroughBlocks            (utils/seeder, src/unnamed/part_007)    *)
(*   - processHistoricalEvents,                                             *)
(*     processContractEventRange,                                           *)
(*     getContractLogs, processEventLog,                                    *)
(*     setupEventWatchers           (logs, src/unnamed/part_001)            *)
(*   - saveLogToDatabase,                                                   *)
(*     generateDatabaseSchemas      (utils/dbClient, src/unnamed/part_006)  *)
(*   - Logger.trackStat/getStats/reset (src/src/utils/logger.ts)            *)
EXTENDS Integers, Sequences, FiniteSets, TLC

(***************************************************************************)
(* Bounds of the model.                                                    *)
(***************************************************************************)
\* largest block number of the freely chosen block intervals
MaxBlock == 3
\* largest explicit batch size handed to loopThroughBlocks
MaxBatchSize == 3
\* number of getLogs requests the chain client may fail in one run
MaxFailures == 5
\* number of storage failures in one run
MaxDbFailures == 1
\* number of deliveries the subscriptions receive in one run
MaxDeliveries == 2
\* number of saveLogToDatabase calls between two start-ups of the process
MaxStores == 2

(***************************************************************************)
(* Program constants.                                                      *)
(***************************************************************************)
\* const batchSize = defaultBatchSize ? defaultBatchSize : 1000n
DefaultBatchSize == 1000

\* DEFAULT_CONFIG: batchSize: 4999
DefaultConfigBatchSize == 4999

\* DEFAULT_CONFIG: retry: { maxRetries: 3, ... }
DefaultConfigMaxRetries == 3

VARIABLES
  \* ---- loopThroughBlocks: its parameters and locals
  lbPc,             \* "idle" | "loop" | "cb" | "done"
  firstBlock,
  lastBlock,
  batchSize,
  currentBlock,
  nextBlock,
  processedBlocks,
  batchCount,
  lbCaught,         \* number of callback errors caught (and logged) by the loop
  lbResult,         \* the value returned, NoValue until the function returns
  cbCalls,          \* the (fromBlock, toBlock) pairs handed to cb, in order
  cbState           \* "none" | "running" | "returned" | "threw"

lbVars == <<lbPc, firstBlock, lastBlock, batchSize, currentBlock, nextBlock,
            processedBlocks, batchCount, lbCaught, lbResult, cbCalls, cbState>>

VARIABLES
  \* ---- the run: configuration and position of runIndexer
  mainPc,           \* "start" | "backfill" | "watching" | "stopped" | "failed"
  contractAddresses,
  abis,
  startBlock,       \* config.startBlock, NoValue when not configured
  bindexerConfig,   \* config.batchSize and config.retry of the loaded configuration
  chainHeight,      \* what viemClient.getBlockNumber() answers
  \* ---- processHistoricalEvents and its per-batch callback
  phePc,            \* "idle" | "running" | "done" | "threw"
  batchNumber,
  unit,             \* <<i, j>>: contractAddresses[i], abis[j] is being processed
  \* ---- processContractEventRange: the stack of its (recursive) invocations
  stack,
  rpc,              \* the last getLogs exchange with the chain client
  rpcCount,         \* number of getLogs requests sent so far
  failures,         \* number of getLogs requests that failed so far
  lastReturn,       \* how the last finished invocation of processContractEventRange ended
  \* ---- the database and the logger's statistics
  tables,
  stats,
  dbFailures,       \* number of storage failures so far
  lastSave,         \* the last saveLogToDatabase call
  throttledMessages, \* Logger.throttledMessages: per key, the occurrences counted
  lastSchemas,      \* the last generateDatabaseSchemas call: createdCount, and the
                    \* number of schemas the storage failed on
  lastSummary,      \* the last Logger.logBatchSummary call of the backfill
  \* ---- the live watcher
  watchers,         \* the subscriptions that are active
  inflight,         \* per subscription: the delivered logs onLogs still has to save
  deliveries        \* number of deliveries so far

VARIABLES
  \* ---- a function or a request handler called on its own
  call              \* what was called, on what, and what it returned

cfgVars == <<contractAddresses, abis, startBlock, bindexerConfig, chainHeight>>
drvVars == <<stack, rpc, rpcCount, failures, lastReturn>>
dbVars == <<tables, stats, dbFailures, lastSave, throttledMessages, lastSchemas,
            lastSummary>>
liveVars == <<watchers, inflight, deliveries>>

restVars == <<mainPc, cfgVars, call, phePc, batchNumber, unit, drvVars, dbVars, liveVars>>

vars == <<lbVars, mainPc, cfgVars, call, phePc, batchNumber, unit, drvVars, dbVars, liveVars>>

NoValue == -1

\* if (value): a number that is defined and not 0
Truthy(value) == value \notin {NoValue, 0}

\* the batchSize and the retry policy of a configuration object
Tuning(size, maxRetries) == [batchSize |-> size, retry |-> [maxRetries |-> maxRetries]]

\* what DEFAULT_CONFIG leaves in them
DefaultTuning == Tuning(DefaultConfigBatchSize, DefaultConfigMaxRetries)

\* a call: the function, its argument, and its result once it has returned
Call(fn, arg) == [fn |-> fn, arg |-> arg, done |-> FALSE, result |-> <<>>]
Returned(c, result) == [c EXCEPT !.done = TRUE, !.result = result]
NoCall == Call("", <<>>)

(***************************************************************************)
(* loopThroughBlocks                                                       *)
(***************************************************************************)
\* defaultBatchSize ? defaultBatchSize : 1000n  (absent and 0n are both falsy;
\* an absent argument is written 0)
EffectiveBatchSize(defaultBatchSize) ==
  IF defaultBatchSize # 0 THEN defaultBatchSize ELSE DefaultBatchSize

\* the end of the range without the clamp to lastBlock
NextBlockOf_Unclamped(cur, size, last) == cur + size

\* nextBlock = currentBlock + batchSize; if (nextBlock >= lastBlock) nextBlock = lastBlock
NextBlockOf(cur, size, last) ==
  IF cur + size >= last THEN last ELSE cur + size

\* the loop test written with !==
LoopCondition_NotEqual(next, last) == next # last

\* while (nextBlock < lastBlock)
LoopCondition(next, last) == next < last

\* entry of the function: parameters bound, locals initialised
LtbEnter(first, last, defaultBatchSize) ==
  /\ lbPc = "idle"
  /\ lbPc' = "loop"
  /\ firstBlock' = first
  /\ lastBlock' = last
  /\ batchSize' = EffectiveBatchSize(defaultBatchSize)
  /\ currentBlock' = first
  /\ nextBlock' = first
  /\ processedBlocks' = 0
  /\ batchCount' = 0
  /\ lbCaught' = 0
  /\ lbResult' = NoValue
  /\ cbCalls' = <<>>
  /\ cbState' = "none"

\* one pass of the loop head: the bounds of the next range are computed and
\* cb(currentBlock, nextBlock) is invoked
LtbInvoke ==
  /\ lbPc = "loop"
  /\ LoopCondition(nextBlock, lastBlock)
  /\ nextBlock' = NextBlockOf(currentBlock, batchSize, lastBlock)
  /\ batchCount' = batchCount + 1
  /\ cbCalls' = Append(cbCalls, <<currentBlock, nextBlock'>>)
  /\ cbState' = "running"
  /\ lbPc' = "cb"
  /\ UNCHANGED <<firstBlock, lastBlock, batchSize, currentBlock,
                 processedBlocks, lbCaught, lbResult>>
  /\ UNCHANGED restVars

\* the loop going on without awaiting the callback it has invoked
LtbCbReturned_NotAwaited ==
  /\ lbPc = "cb"
  /\ cbState \in {"running", "returned"}
  /\ processedBlocks' = processedBlocks + (nextBlock - currentBlock + 1)
  /\ currentBlock' = nextBlock + 1
  /\ cbState' = "none"
  /\ lbPc' = "loop"
  /\ UNCHANGED <<firstBlock, lastBlock, batchSize, nextBlock, batchCount,
                 lbCaught, lbResult, cbCalls>>
  /\ UNCHANGED restVars

\* the awaited callback resolved: progress accounting, then currentBlock = nextBlock + 1n
LtbCbReturned ==
  /\ lbPc = "cb"
  /\ cbState = "returned"
  /\ processedBlocks' = processedBlocks + (nextBlock - currentBlock + 1)
  /\ currentBlock' = nextBlock + 1
  /\ cbState' = "none"
  /\ lbPc' = "loop"
  /\ UNCHANGED <<firstBlock, lastBlock, batchSize, nextBlock, batchCount,
                 lbCaught, lbResult, cbCalls>>
  /\ UNCHANGED restVars

\* the awaited callback rejected and nothing catches it: the rejection ends
\* loopThroughBlocks
LtbCbThrew_Uncaught ==
  /\ lbPc = "cb"
  /\ cbState = "threw"
  /\ cbState' = "none"
  /\ lbPc' = "done"
  /\ UNCHANGED <<firstBlock, lastBlock, batchSize, currentBlock, nextBlock, batchCount,
                 processedBlocks, lbCaught, lbResult, cbCalls>>
  /\ UNCHANGED restVars

\* the awaited callback rejected: the catch block logs, then currentBlock = nextBlock + 1n
LtbCbThrew ==
  /\ lbPc = "cb"
  /\ cbState = "threw"
  /\ lbCaught' = lbCaught + 1
  /\ currentBlock' = nextBlock + 1
  /\ cbState' = "none"
  /\ lbPc' = "loop"
  /\ UNCHANGED <<firstBlock, lastBlock, batchSize, nextBlock, batchCount,
                 processedBlocks, lbResult, cbCalls>>
  /\ UNCHANGED restVars

\* the loop condition is false: return lastBlock
LtbReturn ==
  /\ lbPc = "loop"
  /\ ~LoopCondition(nextBlock, lastBlock)
  /\ lbResult' = lastBlock
  /\ lbPc' = "done"
  /\ UNCHANGED <<firstBlock, lastBlock, batchSize, currentBlock, nextBlock,
                 processedBlocks, batchCount, lbCaught, cbCalls, cbState>>
  /\ UNCHANGED restVars

(***************************************************************************)
(* Text.  A message is a sequence of tokens: a word is one token, and the  *)
(* characters of a rendered number or of an address are one token each, so *)
(* that String.includes is a search for a contiguous run of tokens and is  *)
(* case-sensitive ("Too" and "too" are different tokens).                  *)
(***************************************************************************)
Includes(msg, pat) ==
  \E i \in 1..(Len(msg) - Len(pat) + 1) : SubSeq(msg, i, i + Len(pat) - 1) = pat

DigitToken == <<"0", "1", "2", "3", "4", "5", "6", "7", "8", "9">>

\* `${n}` for a bigint n >= 0: its decimal digits
RECURSIVE Digits(_)
Digits(n) ==
  IF n < 10 THEN <<DigitToken[n + 1]>>
  ELSE Digits(n \div 10) \o <<DigitToken[(n % 10) + 1]>>

\* `${fromBlock}-${toBlock}`
RangeText(from, to) == Digits(from) \o <<"-">> \o Digits(to)

\* String.startsWith
StartsWith(text, pat) ==
  /\ Len(pat) <= Len(text)
  /\ SubSeq(text, 1, Len(pat)) = pat

(***************************************************************************)
(* The type tags of event inputs, as text: the word the tag begins with,   *)
(* the digits of its size, and the brackets of an array.                   *)
(***************************************************************************)
\* the largest size of an elementary type, in bytes (uint256, bytes32)
MaxTypeBytes == 32

UintType(bits) == <<"uint">> \o Digits(bits)
IntType(bits) == <<"int">> \o Digits(bits)
BytesType(n) == <<"bytes">> \o Digits(n)
AddressType == <<"address">>
BoolType == <<"bool">>
StringType == <<"string">>
DynamicBytesType == <<"bytes">>

\* T[] and T[n]
ArrayOf(type) == type \o <<"[", "]">>
FixedArrayOf(type, n) == type \o <<"[">> \o Digits(n) \o <<"]">>

ElementaryTypes ==
  { UintType(8 * k) : k \in 1..MaxTypeBytes }
    \cup { IntType(8 * k) : k \in 1..MaxTypeBytes }
    \cup { BytesType(n) : n \in 1..MaxTypeBytes }
    \cup { AddressType, BoolType, StringType, DynamicBytesType }

\* the type tags an event input can carry
EthTypes ==
  ElementaryTypes
    \cup { ArrayOf(t) : t \in ElementaryTypes }
    \cup { FixedArrayOf(t, 2) : t \in ElementaryTypes }

\* the mapping without the test for the wide integers
GetSqlTypeFromEthType_NoWideIntegers(ethType) ==
  IF StartsWith(ethType, <<"uint">>) \/ StartsWith(ethType, <<"int">>) THEN "INTEGER"
  ELSE IF ethType = AddressType THEN "TEXT"
  ELSE IF ethType = BoolType THEN "BOOLEAN"
  ELSE IF StartsWith(ethType, <<"bytes">>) THEN "BLOB"
  ELSE "TEXT"

\* getSqlTypeFromEthType
GetSqlTypeFromEthType(ethType) ==
  IF StartsWith(ethType, <<"uint">>) \/ StartsWith(ethType, <<"int">>)
  THEN IF Includes(ethType, <<"2", "5", "6">>) \/ Includes(ethType, <<"1", "2", "8">>)
       THEN "TEXT"
       ELSE "INTEGER"
  ELSE IF ethType = AddressType THEN "TEXT"
  ELSE IF ethType = BoolType THEN "BOOLEAN"
  ELSE IF StartsWith(ethType, <<"bytes">>) THEN "BLOB"
  ELSE IF ethType = StringType THEN "TEXT"
  ELSE IF Includes(ethType, <<"[", "]">>) THEN "TEXT"
  ELSE "TEXT"

(***************************************************************************)
(* The configured contracts and events, and the chain they are read from.  *)
(***************************************************************************)
\* two contract addresses (shortened); the second has the characters 429 in it
AddrA == <<"0", "x", "a", "1", "b", "2", "c", "3", "d", "5">>
AddrB == <<"0", "x", "b", "7", "c", "8", "d", "6", "4", "2", "9">>

\* event Transfer(address,address,uint256)
Transfer == [name |-> "Transfer", inputs |-> <<AddressType, AddressType, UintType(256)>>]

\* String.toLowerCase on the event names in use
ToLowerCase(name) ==
  CASE name = "Transfer" -> "transfer"
    [] name = "TRANSFER" -> "transfer"
    [] OTHER -> name

\* `event_${eventName.toLowerCase()}`
TableName(eventName) == <<"event_", ToLowerCase(eventName)>>

\* decoded argument values, written <<typeof value, value>>: a string (an
\* address) of one token, the bigint v, and the bigint m * 10^e
S(v) == <<"string", <<v>>>>
N(v) == <<"bigint", v, 0>>
E(m, e) == <<"bigint", m, e>>

\* a transactionHash that is undefined; an undefined logIndex is NoValue
Absent == "undefined"

\* the logs on the chain; a log of a pending transaction has no transactionHash
ChainLogs ==
  { [address |-> AddrA, eventName |-> "Transfer", blockNumber |-> 1,
     transactionHash |-> "0xt1", logIndex |-> 0, args |-> <<S("0xf"), S("0xt"), N(5)>>],
    [address |-> AddrA, eventName |-> "Transfer", blockNumber |-> 3,
     transactionHash |-> "0xt3", logIndex |-> 0, args |-> <<S("0xf"), S("0xt"), N(7)>>],
    [address |-> AddrA, eventName |-> "Transfer", blockNumber |-> 3,
     transactionHash |-> "0xt3", logIndex |-> 1, args |-> <<S("0xt"), S("0xf"), N(7)>>],
    [address |-> AddrA, eventName |-> "Transfer", blockNumber |-> 2,
     transactionHash |-> Absent, logIndex |-> 0, args |-> <<S("0xf"), S("0xt"), N(1)>>],
    [address |-> AddrB, eventName |-> "Transfer", blockNumber |-> 2,
     transactionHash |-> "0xt2", logIndex |-> NoValue, args |-> <<S("0xf"), S("0xt"), N(9)>>],
    [address |-> AddrA, eventName |-> "Transfer", blockNumber |-> 100,
     transactionHash |-> "0xt100", logIndex |-> 0, args |-> <<S("0xf"), S("0xt"), N(3)>>],
    [address |-> AddrA, eventName |-> "Transfer", blockNumber |-> 1500,
     transactionHash |-> "0xt1500", logIndex |-> 2, args |-> <<S("0xf"), S("0xt"), N(4)>>] }

\* the failure descriptions the chain client's getLogs rejects with
ErrLogResponseSize == <<"Log", "response", "size", "exceeded">>
ErrTooManyLogs == <<"query", "returned", "too", "many", "logs">>
ErrRateLimit == <<"rate", "limit", "reached">>
Err429 == <<"HTTP", "status", "4", "2", "9">>
ErrConnection == <<"connection", "refused">>

ClientErrors == {ErrLogResponseSize, ErrTooManyLogs, ErrRateLimit, Err429, ErrConnection}

(***************************************************************************)
(* The database (utils/dbClient) and the logger's statistics.              *)
(***************************************************************************)
\* the indexes generateDatabaseSchemas creates on a table
IdxContract == "contract"
IdxBlock == "block"
IdxUnique == "unique"

\* `param_${i}_${input.type}` for every input of the event, i counted from 0,
\* and the column's declared type
ParamColumns(abi) ==
  [i \in 1..Len(abi.inputs) |->
     <<"param_", i - 1, abi.inputs[i], GetSqlTypeFromEthType(abi.inputs[i])>>]

\* the result of executing SQL: the database after it, and whether it went
\* through (ok) or threw
Executed(tbls, ok) == [tables |-> tbls, ok |-> ok]

\* CREATE TABLE that replaces a table that exists by an empty one
CreateTable_Replaces(tbls, t, columns, ifNotExists) ==
  Executed([x \in DOMAIN tbls \cup {t} |->
              [columns |-> columns, rows |-> <<>>,
               indexes |-> IF x \in DOMAIN tbls THEN tbls[x].indexes ELSE {}]],
           TRUE)

\* CREATE TABLE [IF NOT EXISTS] t (...): a table that exists is kept as it is,
\* and without IF NOT EXISTS the statement throws on it
CreateTable(tbls, t, columns, ifNotExists) ==
  IF t \in DOMAIN tbls THEN Executed(tbls, ifNotExists)
  ELSE Executed([x \in DOMAIN tbls \cup {t} |->
                   IF x = t THEN [columns |-> columns, rows |-> <<>>, indexes |-> {}]
                   ELSE tbls[x]],
                TRUE)

\* two rows of the table have the same (transaction_hash, log_index)
HasDuplicateKeys(table) ==
  \E i, j \in 1..Len(table.rows) :
    /\ i # j
    /\ table.rows[i].transaction_hash = table.rows[j].transaction_hash
    /\ table.rows[i].log_index = table.rows[j].log_index

\* CREATE [UNIQUE] INDEX [IF NOT EXISTS] name ON t (...): an index that exists
\* is kept, and without IF NOT EXISTS the statement throws on it; it throws
\* without the table, and a unique index throws on rows with equal keys
CreateIndex(tbls, t, name, ifNotExists) ==
  IF t \notin DOMAIN tbls THEN Executed(tbls, FALSE)
  ELSE IF name \in tbls[t].indexes THEN Executed(tbls, ifNotExists)
  ELSE IF name = IdxUnique /\ HasDuplicateKeys(tbls[t]) THEN Executed(tbls, FALSE)
  ELSE Executed([tbls EXCEPT ![t].indexes = @ \cup {name}], TRUE)

\* the schema with plain CREATE statements, without IF NOT EXISTS
ExecSchema_PlainCreate(tbls, abi) ==
  LET t == TableName(abi.name)
      r1 == CreateTable(tbls, t, ParamColumns(abi), FALSE)
      r2 == CreateIndex(r1.tables, t, IdxContract, FALSE)
      r3 == CreateIndex(r2.tables, t, IdxBlock, FALSE)
      r4 == CreateIndex(r3.tables, t, IdxUnique, FALSE)
  IN IF ~r1.ok THEN r1 ELSE IF ~r2.ok THEN r2 ELSE IF ~r3.ok THEN r3 ELSE r4

\* db.exec(schema): CREATE TABLE IF NOT EXISTS ...; CREATE INDEX IF NOT EXISTS
\* ..._contract; CREATE INDEX IF NOT EXISTS ..._block; CREATE UNIQUE INDEX IF
\* NOT EXISTS ..._unique, one after another until one throws
ExecSchema(tbls, abi) ==
  LET t == TableName(abi.name)
      r1 == CreateTable(tbls, t, ParamColumns(abi), TRUE)
      r2 == CreateIndex(r1.tables, t, IdxContract, TRUE)
      r3 == CreateIndex(r2.tables, t, IdxBlock, TRUE)
      r4 == CreateIndex(r3.tables, t, IdxUnique, TRUE)
  IN IF ~r1.ok THEN r1 ELSE IF ~r2.ok THEN r2 ELSE IF ~r3.ok THEN r3 ELSE r4

\* what generateDatabaseSchemas leaves: the database and createdCount
Generated(tbls, createdCount) == [tables |-> tbls, createdCount |-> createdCount]

\* generateDatabaseSchemas from the i-th schema on: each schema is executed on
\* its own; one that throws (by itself, or because the storage fails on it:
\* its position is in failing) is logged and skipped, the others are counted
RECURSIVE GenerateDatabaseSchemas(_, _, _, _)
GenerateDatabaseSchemas(tbls, eventAbis, i, failing) ==
  IF i > Len(eventAbis) THEN Generated(tbls, 0)
  ELSE LET r == IF i \in failing THEN Executed(tbls, FALSE)
                ELSE ExecSchema(tbls, eventAbis[i])
           rest == GenerateDatabaseSchemas(r.tables, eventAbis, i + 1, failing)
       IN Generated(rest.tables, rest.createdCount + (IF r.ok THEN 1 ELSE 0))

\* log.logIndex || 0
LogIndexOrZero(logIndex) == IF logIndex = NoValue THEN 0 ELSE logIndex

\* SELECT id FROM table WHERE transaction_hash = ? AND log_index = ?
\* (an undefined hash is bound as NULL, which equals nothing)
ExistingLog(rows, hash, logIndex) ==
  /\ hash # Absent
  /\ \E k \in 1..Len(rows) :
       /\ rows[k].transaction_hash = hash
       /\ rows[k].log_index = logIndex

\* BigInt.prototype.toString: the decimal digits
BigIntToString(value) == Digits(value[2]) \o [i \in 1..value[3] |-> "0"]

\* formatValueForSql: a bigint becomes its decimal string, a string is kept
FormatValueForSql(value) ==
  IF value[1] = "bigint" THEN <<"string", BigIntToString(value)>> ELSE value

SqlNull == <<>>

\* the text is a well-formed integer literal
IsIntegerLiteral(text) ==
  /\ text # <<>>
  /\ \A i \in 1..Len(text) : \E d \in 1..10 : text[i] = DigitToken[d]

\* what the database keeps of a string bound to a column of the declared
\* type: a TEXT or BLOB column keeps the text; an INTEGER or BOOLEAN column
\* (integer and numeric affinity) turns an integer literal into an integer
StoreValue(sqlType, value) ==
  IF sqlType \in {"INTEGER", "BOOLEAN"} /\ IsIntegerLiteral(value[2])
  THEN <<"integer", value[2]>>
  ELSE <<"text", value[2]>>

\* the values bound to the param_ columns: args[index], NULL when it is undefined
ParamValues(columns, args) ==
  [i \in 1..Len(columns) |->
     IF columns[i][2] + 1 \in 1..Len(args)
     THEN StoreValue(columns[i][4], FormatValueForSql(args[columns[i][2] + 1]))
     ELSE SqlNull]

\* what a query hands back for a stored value: a string for text, a number
\* for an integer, null for NULL (written <<typeof value, value>>)
ReadValue(stored) ==
  IF stored = SqlNull THEN <<"null", <<>>>>
  ELSE IF stored[1] = "integer" THEN <<"number", stored[2]>>
  ELSE <<"string", stored[2]>>

\* JSON.parse of a text that begins with a bracket or a brace: the parsed
\* value when the text closes the bracket, the text itself when parsing throws
JsonParse(text) ==
  IF text[Len(text)] \in {"]", "}"} THEN <<"object", text>> ELSE <<"string", text>>

\* the row getLogsFromDatabase returns for a stored row: the strings that look
\* like JSON parsed, everything else as read
ParsedValue(value) ==
  IF value[1] = "string" /\ StartsWith(value[2], <<"[">>) THEN JsonParse(value[2])
  ELSE IF value[1] = "string" /\ StartsWith(value[2], <<"{">>) THEN JsonParse(value[2])
  ELSE value

ParsedRow(row) ==
  [row EXCEPT !.params = [i \in 1..Len(row.params) |-> ParsedValue(ReadValue(row.params[i]))]]

\* limit = 100 (getLogsFromDatabase's default, and the API server's)
DefaultLimit == 100

\* getLogsFromDatabase(eventName, { limit, offset }): the rows of the event's
\* table, the latest first; nothing without the table, or when the query
\* throws (ioFails)
GetLogsFromDatabase(tbls, eventName, limit, offset, ioFails) ==
  LET t == TableName(eventName) IN
  IF ioFails \/ t \notin DOMAIN tbls THEN <<>>
  ELSE LET rows == tbls[t].rows
           n == Len(rows)
           rest == IF n > offset THEN n - offset ELSE 0
           count == IF rest > limit THEN limit ELSE rest
       IN [i \in 1..count |-> ParsedRow(rows[n + 1 - offset - i])]

\* the row the INSERT writes; id is the autoincrement key
NewRow(table, log) ==
  [id |-> Len(table.rows) + 1,
   contract_address |-> log.address,
   transaction_hash |-> log.transactionHash,
   block_number |-> log.blockNumber,
   log_index |-> LogIndexOrZero(log.logIndex),
   params |-> ParamValues(table.columns, log.args)]

\* stmt.run(...values) throws on a NOT NULL column bound to NULL and on a key
\* the unique index already holds
InsertRejected(table, log) ==
  \/ log.transactionHash = Absent
  \/ /\ IdxUnique \in table.indexes
     /\ ExistingLog(table.rows, log.transactionHash, LogIndexOrZero(log.logIndex))

NoStats == [duplicates |-> 0, processed |-> 0, errors |-> 0]

\* Logger.trackStat(key, type)
TrackStat(sts, key, type) ==
  LET stat == IF key \in DOMAIN sts THEN sts[key] ELSE NoStats
      new == CASE type = "duplicate" -> [stat EXCEPT !.duplicates = @ + 1]
               [] type = "processed" -> [stat EXCEPT !.processed = @ + 1]
               [] type = "error" -> [stat EXCEPT !.errors = @ + 1]
  IN [k \in DOMAIN sts \cup {key} |-> IF k = key THEN new ELSE sts[k]]

\* Logger.getStats(key, true): the entry is removed
DeleteStats(sts, key) == [k \in DOMAIN sts \ {key} |-> sts[k]]

\* Logger.throttled(key, ...): the first occurrence is shown and counted 1; a
\* later one is counted, and when more than throttleMs have elapsed since the
\* message was last shown it is shown again and the count starts over at 0
Throttled(th, key, elapsed) ==
  LET new == IF key \notin DOMAIN th THEN 1
             ELSE IF elapsed THEN 0
             ELSE th[key] + 1
  IN [k \in DOMAIN th \cup {key} |-> IF k = key THEN new ELSE th[k]]

NoThrottled == [k \in {} |-> 0]

\* before generateDatabaseSchemas was called
NoSchemas == [createdCount |-> 0, ioFailed |-> 0]

\* the throttled message saveLogToDatabase logs: 'duplicate_logs' for a
\* duplicate, 'db_save_errors' in its catch block, none otherwise
ThrottledBySave(th, outcome, elapsed) ==
  CASE outcome = "duplicate" -> Throttled(th, "duplicate_logs", elapsed)
    [] outcome = "error" -> Throttled(th, "db_save_errors", elapsed)
    [] OTHER -> th

\* the key of that message, "" for none
ThrottleKeyOfSave(outcome) ==
  CASE outcome = "duplicate" -> "duplicate_logs"
    [] outcome = "error" -> "db_save_errors"
    [] OTHER -> ""

\* text.slice(0, n)
Slice(text, n) == SubSeq(text, 1, IF Len(text) < n THEN Len(text) ELSE n)

\* `batch_${batchNumber}_${abi.name}_${contractAddress.slice(0, 8)}`
BatchId(n, abi, address) == <<"batch_", n, abi.name, Slice(address, 8)>>

CurrentBatch == <<"current_batch">>

\* saveLogToDatabase without the look-up of an existing row
SaveLogToDatabase_NoDuplicateCheck(tbls, sts, log, eventName, ioFails) ==
  LET t == TableName(eventName) IN
  IF ioFails
  THEN [tables |-> tbls, stats |-> TrackStat(sts, CurrentBatch, "error"),
        outcome |-> "error"]
  ELSE IF t \notin DOMAIN tbls
  THEN [tables |-> tbls, stats |-> sts, outcome |-> "no table"]
  ELSE IF InsertRejected(tbls[t], log)
  THEN [tables |-> tbls, stats |-> TrackStat(sts, CurrentBatch, "error"),
        outcome |-> "error"]
  ELSE [tables |-> [tbls EXCEPT ![t].rows = Append(@, NewRow(tbls[t], log))],
        stats |-> TrackStat(sts, CurrentBatch, "processed"),
        outcome |-> "inserted"]

\* saveLogToDatabase writing the row without look-up, into a table whose
\* (transaction_hash, log_index) index does not reject a second row
SaveLogToDatabase_Unguarded(tbls, sts, log, eventName, ioFails) ==
  LET t == TableName(eventName) IN
  IF ioFails
  THEN [tables |-> tbls, stats |-> TrackStat(sts, CurrentBatch, "error"),
        outcome |-> "error"]
  ELSE IF t \notin DOMAIN tbls
  THEN [tables |-> tbls, stats |-> sts, outcome |-> "no table"]
  ELSE IF log.transactionHash = Absent
  THEN [tables |-> tbls, stats |-> TrackStat(sts, CurrentBatch, "error"),
        outcome |-> "error"]
  ELSE [tables |-> [tbls EXCEPT ![t].rows = Append(@, NewRow(tbls[t], log))],
        stats |-> TrackStat(sts, CurrentBatch, "processed"),
        outcome |-> "inserted"]

\* saveLogToDatabase without the test that the table exists: the look-up in
\* the missing table throws, which the catch block counts as an error
SaveLogToDatabase_NoTableCheck(tbls, sts, log, eventName, ioFails) ==
  LET t == TableName(eventName) IN
  IF ioFails \/ t \notin DOMAIN tbls
  THEN [tables |-> tbls, stats |-> TrackStat(sts, CurrentBatch, "error"),
        outcome |-> "error"]
  ELSE IF ExistingLog(tbls[t].rows, log.transactionHash, LogIndexOrZero(log.logIndex))
  THEN [tables |-> tbls, stats |-> TrackStat(sts, CurrentBatch, "duplicate"),
        outcome |-> "duplicate"]
  ELSE IF InsertRejected(tbls[t], log)
  THEN [tables |-> tbls, stats |-> TrackStat(sts, CurrentBatch, "error"),
        outcome |-> "error"]
  ELSE [tables |-> [tbls EXCEPT ![t].rows = Append(@, NewRow(tbls[t], log))],
        stats |-> TrackStat(sts, CurrentBatch, "processed"),
        outcome |-> "inserted"]

\* saveLogToDatabase(log, eventName); ioFails: a statement throws for a reason
\* of the storage itself.  The result is the database and statistics after it.
SaveLogToDatabase(tbls, sts, log, eventName, ioFails) ==
  LET t == TableName(eventName) IN
  IF ioFails
  THEN [tables |-> tbls, stats |-> TrackStat(sts, CurrentBatch, "error"),
        outcome |-> "error"]
  ELSE IF t \notin DOMAIN tbls
  THEN [tables |-> tbls, stats |-> sts, outcome |-> "no table"]
  ELSE IF ExistingLog(tbls[t].rows, log.transactionHash, LogIndexOrZero(log.logIndex))
  THEN [tables |-> tbls, stats |-> TrackStat(sts, CurrentBatch, "duplicate"),
        outcome |-> "duplicate"]
  ELSE IF InsertRejected(tbls[t], log)
  THEN [tables |-> tbls, stats |-> TrackStat(sts, CurrentBatch, "error"),
        outcome |-> "error"]
  ELSE [tables |-> [tbls EXCEPT ![t].rows = Append(@, NewRow(tbls[t], log))],
        stats |-> TrackStat(sts, CurrentBatch, "processed"),
        outcome |-> "inserted"]

\* the record of a saveLogToDatabase call: which log, for which event, by whom
\* ("backfill" or "live"), and how it ended
SaveRecord(n, log, eventName, caller, outcome) ==
  [n |-> n, transactionHash |-> log.transactionHash,
   logIndex |-> LogIndexOrZero(log.logIndex), eventName |-> eventName,
   caller |-> caller, outcome |-> outcome, left |-> 0,
   delivered |-> 0, processed |-> 0, errors |-> 0]

\* onLogs: let processed = 0, let errors = 0, for a delivery of logs.length logs
Counts(delivered, processed, errors) ==
  [delivered |-> delivered, processed |-> processed, errors |-> errors]

\* whether saveLogToDatabase throws to its caller: its catch block takes every
\* error of the insert, records it and returns
SaveThrows(outcome) == FALSE

\* try { await saveLogToDatabase(log, abi.name); processed++ } catch { errors++ }
Counted(counts, outcome) ==
  IF SaveThrows(outcome)
  THEN [counts EXCEPT !.errors = @ + 1]
  ELSE [counts EXCEPT !.processed = @ + 1]

\* the record of a call made by onLogs: left is the number of logs of the
\* delivery that come after this one, counts are onLogs' counters after it
LiveRecord(n, log, eventName, outcome, left, counts) ==
  [SaveRecord(n, log, eventName, "live", outcome)
     EXCEPT !.left = left, !.delivered = counts.delivered,
            !.processed = counts.processed, !.errors = counts.errors]

NoSave == [n |-> 0, transactionHash |-> Absent, logIndex |-> 0, eventName |-> "",
           caller |-> "", outcome |-> "none", left |-> 0,
           delivered |-> 0, processed |-> 0, errors |-> 0]

(***************************************************************************)
(* getContractLogs and the catch block of processContractEventRange.       *)
(***************************************************************************)
\* maxRetries: number = 3
DefaultMaxRetries == 3

\* the logs viemClient.getLogs answers for an address, an event and a range
MatchingLogs(address, abi, from, to) ==
  { l \in ChainLogs : /\ l.address = address
                      /\ l.eventName = abi.name
                      /\ from <= l.blockNumber
                      /\ l.blockNumber <= to }

\* a set of logs in chain order
RECURSIVE InChainOrder(_)
InChainOrder(logs) ==
  IF logs = {} THEN <<>>
  ELSE LET key(l) == l.blockNumber * 100 + LogIndexOrZero(l.logIndex)
           first == CHOOSE l \in logs : \A m \in logs : key(l) <= key(m)
       IN <<first>> \o InChainOrder(logs \ {first})

\* the message of the Error getContractLogs throws when getLogs rejected with
\* the description d
GetContractLogsError(d, address, abi, from, to) ==
  IF Includes(d, <<"Log", "response", "size", "exceeded">>)
  THEN <<"Too", "many", "logs", "for", "range">> \o RangeText(from, to)
         \o <<".", "Try", "smaller", "block", "range", ".">>
  ELSE IF Includes(d, <<"rate", "limit">>)
  THEN <<"Rate", "limit", "exceeded", "for", "range">> \o RangeText(from, to)
         \o <<".", "Retrying", "with", "delay", "...">>
  ELSE <<"Failed", "to", "fetch", "logs", "for", abi.name, "on", "contract">>
         \o address \o <<":">> \o d

\* errorMessage.includes('rate limit') || errorMessage.includes('429')
IsRateLimitMessage(msg) ==
  Includes(msg, <<"rate", "limit">>) \/ Includes(msg, <<"4", "2", "9">>)

\* errorMessage.includes('Log response size exceeded') || errorMessage.includes('too many logs')
IsTooManyLogsMessage(msg) ==
  \/ Includes(msg, <<"Log", "response", "size", "exceeded">>)
  \/ Includes(msg, <<"too", "many", "logs">>)

\* the midpoint rounded up instead of down
MidBlock_RoundedUp(from, to) == from + ((to - from + 1) \div 2)

\* const midBlock = fromBlock + (toBlock - fromBlock) / 2n
MidBlock(from, to) == from + ((to - from) \div 2)

Decision(do, delay) == [do |-> do, delay |-> delay]

\* the catch block throwing the error on once the retries are exhausted
CatchBlock_Rethrow(retryCount, msg, from, to, maxRetries) ==
  IF IsRateLimitMessage(msg) /\ retryCount <= maxRetries
  THEN Decision("retry", (2 ^ retryCount) * 1000)
  ELSE IF IsTooManyLogsMessage(msg)
  THEN (IF from = to THEN Decision("skip", 0) ELSE Decision("split", 0))
  ELSE IF retryCount > maxRetries
  THEN Decision("throw", 0)
  ELSE Decision("retry", 1000 * retryCount)

\* the catch block giving up one attempt early (>= and < for > and <=)
CatchBlock_OneAttemptLess(retryCount, msg, from, to, maxRetries) ==
  IF IsRateLimitMessage(msg) /\ retryCount < maxRetries
  THEN Decision("retry", (2 ^ retryCount) * 1000)
  ELSE IF IsTooManyLogsMessage(msg)
  THEN (IF from = to THEN Decision("skip", 0) ELSE Decision("split", 0))
  ELSE IF retryCount >= maxRetries
  THEN Decision("fail", 0)
  ELSE Decision("retry", 1000 * retryCount)

\* the catch block without the test for a single block before the split
CatchBlock_SplitsSingleBlock(retryCount, msg, from, to, maxRetries) ==
  IF IsRateLimitMessage(msg) /\ retryCount <= maxRetries
  THEN Decision("retry", (2 ^ retryCount) * 1000)
  ELSE IF IsTooManyLogsMessage(msg)
  THEN Decision("split", 0)
  ELSE IF retryCount > maxRetries
  THEN Decision("fail", 0)
  ELSE Decision("retry", 1000 * retryCount)

\* the catch block retrying a rate-limited request whatever the count
CatchBlock_RateLimitUncounted(retryCount, msg, from, to, maxRetries) ==
  IF IsRateLimitMessage(msg)
  THEN Decision("retry", (2 ^ retryCount) * 1000)
  ELSE IF IsTooManyLogsMessage(msg)
  THEN (IF from = to THEN Decision("skip", 0) ELSE Decision("split", 0))
  ELSE IF retryCount > maxRetries
  THEN Decision("fail", 0)
  ELSE Decision("retry", 1000 * retryCount)

\* what the catch block does once retryCount has been incremented:
\*   "retry" (after delay ms), "skip" (single block, return), "split",
\*   "fail" (retries exhausted, return), "throw"
CatchBlock(retryCount, msg, from, to, maxRetries) ==
  IF IsRateLimitMessage(msg) /\ retryCount <= maxRetries
  THEN Decision("retry", (2 ^ retryCount) * 1000)
  ELSE IF IsTooManyLogsMessage(msg)
  THEN (IF from = to THEN Decision("skip", 0) ELSE Decision("split", 0))
  ELSE IF retryCount > maxRetries
  THEN Decision("fail", 0)
  ELSE Decision("retry", 1000 * retryCount)

\* processEventLog: a log without transactionHash or with a falsy blockNumber
\* (0n included) is rejected with an Error before anything is saved
ValidLogStructure(log) ==
  log.transactionHash # Absent /\ log.blockNumber # 0

(***************************************************************************)
(* processContractEventRange as a stack of invocations.                    *)
(***************************************************************************)
\* a fresh invocation: let retryCount = 0, about to call getContractLogs
NewFrame(from, to) ==
  [fromBlock |-> from, toBlock |-> to, retryCount |-> 0, attempts |-> 0,
   pc |-> "fetch", pending |-> <<>>, delay |-> 0]

Top(stk) == stk[Len(stk)]
Pop(stk) == SubSeq(stk, 1, Len(stk) - 1)
SetTop(stk, frame) == [stk EXCEPT ![Len(stk)] = frame]

\* the second half going on with the attempt counter of the range it was
\* split from
RECURSIVE ReturnFrom_SharedCounter(_)
ReturnFrom_SharedCounter(stk) ==
  LET rest == Pop(stk) IN
  IF rest = <<>> THEN <<>>
  ELSE LET parent == Top(rest) IN
       IF parent.pc = "split1"
       THEN Append(SetTop(rest, [parent EXCEPT !.pc = "split2"]),
                   [NewFrame(MidBlock(parent.fromBlock, parent.toBlock) + 1,
                             parent.toBlock)
                      EXCEPT !.retryCount = parent.retryCount,
                             !.attempts = parent.attempts])
       ELSE ReturnFrom_SharedCounter(rest)

\* the top invocation returns: an invocation waiting for its first half goes
\* on with its second half, one waiting for its second half returns as well
RECURSIVE ReturnFrom(_)
ReturnFrom(stk) ==
  LET rest == Pop(stk) IN
  IF rest = <<>> THEN <<>>
  ELSE LET parent == Top(rest) IN
       IF parent.pc = "split1"
       THEN Append(SetTop(rest, [parent EXCEPT !.pc = "split2"]),
                   NewFrame(MidBlock(parent.fromBlock, parent.toBlock) + 1,
                            parent.toBlock))
       ELSE ReturnFrom(rest)

\* the unit after <<i, j>> in: for contractAddress ... for abi ...
NextUnit(u) ==
  IF u[2] < Len(abis) THEN <<u[1], u[2] + 1>>
  ELSE IF u[1] < Len(contractAddresses) THEN <<u[1] + 1, 1>>
  ELSE <<0, 0>>

UnitAddress == contractAddresses[unit[1]]
UnitAbi == abis[unit[2]]

\* the stack after the top invocation ended as `how`; when the outermost
\* invocation has returned the callback starts the next unit on the same
\* batch range, or resolves after the last one
Continue(stk, how) ==
  LET after == IF how = "throw" THEN <<>> ELSE ReturnFrom(stk) IN
  /\ lastReturn' = [fromBlock |-> Top(stk).fromBlock, toBlock |-> Top(stk).toBlock,
                    attempts |-> Top(stk).attempts, how |-> how, unit |-> unit]
  /\ IF how = "throw"
     THEN /\ stack' = <<>>
          /\ unit' = <<0, 0>>
          /\ cbState' = "threw"
     ELSE IF after # <<>>
     THEN /\ stack' = after
          /\ UNCHANGED <<unit, cbState>>
     ELSE IF NextUnit(unit) # <<0, 0>>
     THEN /\ stack' = <<NewFrame(cbCalls[Len(cbCalls)][1], cbCalls[Len(cbCalls)][2])>>
          /\ unit' = NextUnit(unit)
          /\ UNCHANGED cbState
     ELSE /\ stack' = <<>>
          /\ unit' = <<0, 0>>
          /\ cbState' = "returned"

\* Logger.logBatchSummary(batchId, ...): getStats(batchId, true)
LogBatchSummary(sts, batchId) ==
  IF batchId \in DOMAIN sts THEN DeleteStats(sts, batchId) ELSE sts

EmptyStats == [k \in {} |-> NoStats]

\* what logBatchSummary logs: nothing when getStats(batchId) finds no
\* statistics, otherwise the numbers of new events, duplicates and errors
BatchSummary(sts, batchId) ==
  IF batchId \in DOMAIN sts
  THEN [logged |-> TRUE, stats |-> sts[batchId]]
  ELSE [logged |-> FALSE, stats |-> NoStats]

\* the record of a logBatchSummary call: what it logged, and the statistics
\* saveLogToDatabase had tracked when it was made
SummaryRecord(n, sts, batchId) ==
  [n |-> n, summary |-> BatchSummary(sts, batchId),
   tracked |-> IF CurrentBatch \in DOMAIN sts THEN sts[CurrentBatch] ELSE NoStats]

NoSummary == [n |-> 0, summary |-> [logged |-> FALSE, stats |-> NoStats],
              tracked |-> NoStats]

Exchange(frame, address, outcome) ==
  [fromBlock |-> frame.fromBlock, toBlock |-> frame.toBlock,
   address |-> address, outcome |-> outcome]

NoExchange == [fromBlock |-> 0, toBlock |-> 0, address |-> <<>>, outcome |-> <<>>]
NoReturn == [fromBlock |-> 0, toBlock |-> 0, attempts |-> 0, how |-> "none",
             unit |-> <<0, 0>>]

\* getContractLogs resolves: with no log the summary is logged and the
\* invocation returns, otherwise the logs are processed one after another
GetLogsSucceeds ==
  /\ mainPc = "backfill"
  /\ stack # <<>>
  /\ Top(stack).pc = "fetch"
  /\ LET f == Top(stack)
         logs == InChainOrder(MatchingLogs(UnitAddress, UnitAbi, f.fromBlock, f.toBlock))
         g == [f EXCEPT !.attempts = @ + 1, !.pc = "logs", !.pending = logs]
     IN /\ rpc' = Exchange(f, UnitAddress, <<"ok">>)
        /\ rpcCount' = rpcCount + 1
        /\ IF logs = <<>>
           THEN /\ stats' = LogBatchSummary(stats, BatchId(batchNumber, UnitAbi, UnitAddress))
                /\ lastSummary' = SummaryRecord(lastSummary.n + 1, stats,
                                                BatchId(batchNumber, UnitAbi, UnitAddress))
                /\ Continue(SetTop(stack, g), "success")
           ELSE /\ stack' = SetTop(stack, g)
                /\ UNCHANGED <<stats, lastSummary, lastReturn, unit, cbState>>
  /\ UNCHANGED <<lbPc, firstBlock, lastBlock, batchSize, currentBlock, nextBlock,
                 processedBlocks, batchCount, lbCaught, lbResult, cbCalls>>
  /\ UNCHANGED <<mainPc, cfgVars, call, phePc, batchNumber, failures, tables, dbFailures,
                 lastSave, throttledMessages, lastSchemas, liveVars>>

\* getContractLogs throws (getLogs rejected with description d): the catch block
CatchGetLogsError(d) ==
  /\ mainPc = "backfill"
  /\ stack # <<>>
  /\ Top(stack).pc = "fetch"
  /\ LET f == Top(stack)
         msg == GetContractLogsError(d, UnitAddress, UnitAbi, f.fromBlock, f.toBlock)
         g == [f EXCEPT !.attempts = @ + 1, !.retryCount = @ + 1]
         todo == CatchBlock(g.retryCount, msg, f.fromBlock, f.toBlock, DefaultMaxRetries)
     IN /\ rpc' = Exchange(f, UnitAddress, d)
        /\ rpcCount' = rpcCount + 1
        /\ CASE todo.do = "retry" ->
                  /\ stack' = SetTop(stack, [g EXCEPT !.pc = "sleep", !.delay = todo.delay])
                  /\ UNCHANGED <<lastReturn, unit, cbState>>
             [] todo.do = "split" ->
                  /\ stack' = Append(SetTop(stack, [g EXCEPT !.pc = "split1"]),
                                     NewFrame(f.fromBlock, MidBlock(f.fromBlock, f.toBlock)))
                  /\ UNCHANGED <<lastReturn, unit, cbState>>
             [] OTHER -> Continue(SetTop(stack, g), todo.do)
  /\ UNCHANGED <<lbPc, firstBlock, lastBlock, batchSize, currentBlock, nextBlock,
                 processedBlocks, batchCount, lbCaught, lbResult, cbCalls>>
  /\ UNCHANGED <<mainPc, cfgVars, call, phePc, batchNumber, dbVars, liveVars>>

\* a getLogs request of the run fails; the run sees at most MaxFailures of them
GetLogsFails(d) ==
  /\ failures < MaxFailures
  /\ failures' = failures + 1
  /\ CatchGetLogsError(d)

\* await sleep(delay) is over: the loop condition retryCount <= maxRetries is
\* tested and getContractLogs is called again for the same range
Wake ==
  /\ mainPc = "backfill"
  /\ stack # <<>>
  /\ Top(stack).pc = "sleep"
  /\ IF Top(stack).retryCount <= DefaultMaxRetries
     THEN /\ stack' = SetTop(stack, [Top(stack) EXCEPT !.pc = "fetch", !.delay = 0])
          /\ UNCHANGED <<lastReturn, unit, cbState>>
     ELSE Continue(stack, "falloff")
  /\ UNCHANGED <<lbPc, firstBlock, lastBlock, batchSize, currentBlock, nextBlock,
                 processedBlocks, batchCount, lbCaught, lbResult, cbCalls>>
  /\ UNCHANGED <<mainPc, cfgVars, call, phePc, batchNumber, rpc, rpcCount, failures,
                 dbVars, liveVars>>

\* the loop over the logs without its own try/catch: the Error processEventLog
\* throws for a malformed log reaches the catch block of the retry loop, which
\* drops the remaining logs and retries the range
ProcessLog_NoInnerCatch(ioFails, elapsed) ==
  /\ mainPc = "backfill"
  /\ stack # <<>>
  /\ Top(stack).pc = "logs"
  /\ ioFails => /\ dbFailures < MaxDbFailures
                /\ ValidLogStructure(Head(Top(stack).pending))
  /\ LET f == Top(stack)
         log == Head(f.pending)
         g == [f EXCEPT !.pending = Tail(@)]
         h == [f EXCEPT !.pending = <<>>, !.retryCount = @ + 1]
         saved == SaveLogToDatabase(tables, stats, log, UnitAbi.name, ioFails)
         todo == CatchBlock(h.retryCount, <<"Invalid", "log", "structure">>,
                            f.fromBlock, f.toBlock, DefaultMaxRetries)
     IN IF ValidLogStructure(log)
        THEN /\ elapsed => ThrottleKeyOfSave(saved.outcome) \in DOMAIN throttledMessages
             /\ UNCHANGED lastSchemas
             /\ throttledMessages' = ThrottledBySave(throttledMessages, saved.outcome, elapsed)
             /\ tables' = saved.tables
             /\ lastSave' = SaveRecord(lastSave.n + 1, log, UnitAbi.name, "backfill",
                                       saved.outcome)
             /\ dbFailures' = IF ioFails THEN dbFailures + 1 ELSE dbFailures
             /\ IF g.pending = <<>>
                THEN /\ stats' = LogBatchSummary(saved.stats,
                                                 BatchId(batchNumber, UnitAbi, UnitAddress))
                     /\ lastSummary' =
                          SummaryRecord(lastSummary.n + 1, saved.stats,
                                        BatchId(batchNumber, UnitAbi, UnitAddress))
                     /\ Continue(SetTop(stack, g), "success")
                ELSE /\ stats' = saved.stats
                     /\ stack' = SetTop(stack, g)
                     /\ UNCHANGED <<lastSummary, lastReturn, unit, cbState>>
        ELSE /\ ~elapsed
             /\ UNCHANGED <<throttledMessages, lastSchemas, lastSummary, tables, lastSave,
                          dbFailures, stats>>
             /\ IF todo.do = "retry"
                THEN /\ stack' = SetTop(stack, [h EXCEPT !.pc = "sleep", !.delay = todo.delay])
                     /\ UNCHANGED <<lastReturn, unit, cbState>>
                ELSE Continue(SetTop(stack, h), todo.do)
  /\ UNCHANGED <<lbPc, firstBlock, lastBlock, batchSize, currentBlock, nextBlock,
                 processedBlocks, batchCount, lbCaught, lbResult, cbCalls>>
  /\ UNCHANGED <<mainPc, cfgVars, call, phePc, batchNumber, rpc, rpcCount, failures, liveVars>>

\* one pass of: for (const log of logs) { try { await processEventLog(log, abi) }
\* catch { ... } }; after the last log the summary is logged and the invocation returns
ProcessLog(ioFails, elapsed) ==
  /\ mainPc = "backfill"
  /\ stack # <<>>
  /\ Top(stack).pc = "logs"
  /\ ioFails => /\ dbFailures < MaxDbFailures
                /\ ValidLogStructure(Head(Top(stack).pending))
  /\ LET f == Top(stack)
         log == Head(f.pending)
         g == [f EXCEPT !.pending = Tail(@)]
         saved == IF ValidLogStructure(log)
                  THEN SaveLogToDatabase(tables, stats, log, UnitAbi.name, ioFails)
                  ELSE [tables |-> tables, stats |-> stats, outcome |-> "none"]
         key == IF ValidLogStructure(log) THEN ThrottleKeyOfSave(saved.outcome)
                ELSE "process_log_errors"
     IN /\ elapsed => key \in DOMAIN throttledMessages
        /\ UNCHANGED lastSchemas
        /\ throttledMessages' =
             IF ValidLogStructure(log)
             THEN ThrottledBySave(throttledMessages, saved.outcome, elapsed)
             ELSE Throttled(throttledMessages, "process_log_errors", elapsed)
        /\ tables' = saved.tables
        /\ lastSave' = IF ValidLogStructure(log)
                       THEN SaveRecord(lastSave.n + 1, log, UnitAbi.name, "backfill",
                                       saved.outcome)
                       ELSE lastSave
        /\ dbFailures' = IF ioFails THEN dbFailures + 1 ELSE dbFailures
        /\ IF g.pending = <<>>
           THEN /\ stats' = LogBatchSummary(saved.stats,
                                            BatchId(batchNumber, UnitAbi, UnitAddress))
                /\ lastSummary' = SummaryRecord(lastSummary.n + 1, saved.stats,
                                                BatchId(batchNumber, UnitAbi, UnitAddress))
                /\ Continue(SetTop(stack, g), "success")
           ELSE /\ stats' = saved.stats
                /\ stack' = SetTop(stack, g)
                /\ UNCHANGED <<lastSummary, lastReturn, unit, cbState>>
  /\ UNCHANGED <<lbPc, firstBlock, lastBlock, batchSize, currentBlock, nextBlock,
                 processedBlocks, batchCount, lbCaught, lbResult, cbCalls>>
  /\ UNCHANGED <<mainPc, cfgVars, call, phePc, batchNumber, rpc, rpcCount, failures, liveVars>>

(***************************************************************************)
(* The Range Batcher on its own: loopThroughBlocks called with any block   *)
(* interval and batch size, its callback a stub that resolves or rejects.  *)
(***************************************************************************)
\* the intervals and batch sizes tried: every small one, and the documented runs
BatcherInputs ==
  { <<f, l, d>> : f \in 0..MaxBlock, l \in 0..MaxBlock, d \in 0..MaxBatchSize }
    \cup { <<1, 10000, 4999>>, <<100, 100, 0>>, <<1, 2003, 0>> }

BatcherCall ==
  /\ \E in \in BatcherInputs : LtbEnter(in[1], in[2], in[3])
  /\ UNCHANGED restVars

StubCbResolves ==
  /\ lbPc = "cb"
  /\ cbState = "running"
  /\ cbState' = "returned"
  /\ UNCHANGED <<lbPc, firstBlock, lastBlock, batchSize, currentBlock, nextBlock,
                 processedBlocks, batchCount, lbCaught, lbResult, cbCalls>>
  /\ UNCHANGED restVars

StubCbRejects ==
  /\ lbPc = "cb"
  /\ cbState = "running"
  /\ cbState' = "threw"
  /\ UNCHANGED <<lbPc, firstBlock, lastBlock, batchSize, currentBlock, nextBlock,
                 processedBlocks, batchCount, lbCaught, lbResult, cbCalls>>
  /\ UNCHANGED restVars

InitBatcher ==
  /\ lbPc = "idle"
  /\ firstBlock = 0
  /\ lastBlock = 0
  /\ batchSize = 0
  /\ currentBlock = 0
  /\ nextBlock = 0
  /\ processedBlocks = 0
  /\ batchCount = 0
  /\ lbCaught = 0
  /\ lbResult = NoValue
  /\ cbCalls = <<>>
  /\ cbState = "none"

\* the batcher alone: nothing else runs
InitBatcherOnly ==
  /\ InitBatcher
  /\ mainPc = "batcher"
  /\ contractAddresses = <<>>
  /\ abis = <<>>
  /\ startBlock = NoValue
  /\ bindexerConfig = DefaultTuning
  /\ chainHeight = 0
  /\ phePc = "idle"
  /\ batchNumber = 0
  /\ unit = <<0, 0>>
  /\ stack = <<>>
  /\ rpc = NoExchange
  /\ rpcCount = 0
  /\ failures = 0
  /\ lastReturn = NoReturn
  /\ tables = [t \in {} |-> <<>>]
  /\ stats = EmptyStats
  /\ throttledMessages = NoThrottled
  /\ lastSchemas = NoSchemas
  /\ lastSummary = NoSummary
  /\ call = NoCall
  /\ dbFailures = 0
  /\ lastSave = NoSave
  /\ watchers = {}
  /\ inflight = <<>>
  /\ deliveries = 0

NextBatcher ==
  \/ BatcherCall
  \/ LtbInvoke
  \/ StubCbResolves
  \/ StubCbRejects
  \/ LtbCbReturned
  \/ LtbCbThrew
  \/ LtbReturn

SpecBatcher == InitBatcherOnly /\ [][NextBatcher]_vars

(***************************************************************************)
(* runIndexer, processHistoricalEvents and the live watcher.               *)
(***************************************************************************)
\* generateDatabaseSchemas(abis) at start-up
MainGenerateSchemas ==
  /\ mainPc = "start"
  /\ \E failing \in SUBSET (1..Len(abis)) :
       LET done == GenerateDatabaseSchemas(tables, abis, 1, failing)
       IN /\ tables' = done.tables
          /\ lastSchemas' = [createdCount |-> done.createdCount,
                             ioFailed |-> Cardinality(failing)]
  /\ mainPc' = "ready"
  /\ UNCHANGED <<lbVars, cfgVars, call, phePc, batchNumber, unit, drvVars, stats,
                 dbFailures, lastSave, throttledMessages, lastSummary, liveVars>>

\* if (config.startBlock) is false: no backfill
MainSkipsBackfill ==
  /\ mainPc = "ready"
  /\ ~Truthy(startBlock)
  /\ mainPc' = "setup"
  /\ UNCHANGED <<lbVars, cfgVars, call, phePc, batchNumber, unit, drvVars, dbVars, liveVars>>

\* the validation without the test of the block range
InvalidBackfillInput_ListsOnly ==
  \/ Len(contractAddresses) = 0
  \/ Len(abis) = 0

\* the inputs processHistoricalEvents throws on
InvalidBackfillInput ==
  \/ Len(contractAddresses) = 0
  \/ Len(abis) = 0
  \/ startBlock > chainHeight

\* processHistoricalEvents throws before any work
PheRejects ==
  /\ mainPc = "ready"
  /\ Truthy(startBlock)
  /\ InvalidBackfillInput
  /\ phePc' = "threw"
  /\ mainPc' = "failed"
  /\ UNCHANGED <<lbVars, cfgVars, call, batchNumber, unit, drvVars, dbVars, liveVars>>

\* viemClient.getBlockNumber() rejects
PheGetBlockNumberFails ==
  /\ mainPc = "ready"
  /\ Truthy(startBlock)
  /\ Len(contractAddresses) # 0
  /\ Len(abis) # 0
  /\ phePc' = "threw"
  /\ mainPc' = "failed"
  /\ UNCHANGED <<lbVars, cfgVars, call, batchNumber, unit, drvVars, dbVars, liveVars>>

\* await loopThroughBlocks(startBlock, currentBlock, async (fromBlock, toBlock) => ...)
PheStarts ==
  /\ mainPc = "ready"
  /\ Truthy(startBlock)
  /\ ~InvalidBackfillInput
  /\ LtbEnter(startBlock, chainHeight, 0)
  /\ batchNumber' = 0
  /\ phePc' = "running"
  /\ mainPc' = "backfill"
  /\ UNCHANGED <<cfgVars, call, unit, drvVars, dbVars, liveVars>>

\* the callback is entered: batchNumber++, logger.reset(), then the first unit
CallbackStarts ==
  /\ mainPc = "backfill"
  /\ cbState = "running"
  /\ stack = <<>>
  /\ unit = <<0, 0>>
  /\ batchNumber' = batchNumber + 1
  /\ stats' = EmptyStats
  /\ UNCHANGED <<lastSchemas, lastSummary>>
  /\ throttledMessages' = NoThrottled
  /\ unit' = <<1, 1>>
  /\ stack' = <<NewFrame(cbCalls[Len(cbCalls)][1], cbCalls[Len(cbCalls)][2])>>
  /\ UNCHANGED <<lbVars, mainPc, cfgVars, call, phePc, rpc, rpcCount, failures, lastReturn,
                 tables, dbFailures, lastSave, liveVars>>

\* loopThroughBlocks has returned: processHistoricalEvents returns (the record
\* of the backfill's getLogs exchanges ends with it)
PheReturns ==
  /\ mainPc = "backfill"
  /\ lbPc = "done"
  /\ phePc' = "done"
  /\ mainPc' = "setup"
  /\ rpc' = NoExchange
  /\ rpcCount' = 0
  /\ failures' = 0
  /\ lastReturn' = NoReturn
  /\ UNCHANGED <<lbVars, cfgVars, call, batchNumber, unit, stack, dbVars, liveVars>>

\* the subscriptions: one per contract address and event
Subscriptions ==
  { <<i, j>> : i \in 1..Len(contractAddresses), j \in 1..Len(abis) }

\* the watchers set up before the backfill is started
SetupEventWatchers_BeforeBackfill ==
  /\ mainPc = "ready"
  /\ watchers = {}
  /\ Subscriptions # {}
  /\ watchers' = Subscriptions
  /\ UNCHANGED <<lbVars, mainPc, cfgVars, call, phePc, batchNumber, unit, drvVars, dbVars,
                 inflight, deliveries>>

\* setupEventWatchers
SetupEventWatchers ==
  /\ mainPc = "setup"
  /\ watchers' = Subscriptions
  /\ mainPc' = "watching"
  /\ UNCHANGED <<lbVars, cfgVars, call, phePc, batchNumber, unit, drvVars, dbVars,
                 inflight, deliveries>>

\* what a subscription may be handed by the chain client in one onLogs call
LiveBatches(address, abi) ==
  LET mine == InChainOrder(MatchingLogs(address, abi, 0, 10000)) IN
  IF Len(mine) >= 2 THEN {<<mine[1]>>, <<mine[1], mine[2]>>} ELSE {mine}

\* the deliveries being processed, without the k-th
Without(seq, k) == SubSeq(seq, 1, k - 1) \o SubSeq(seq, k + 1, Len(seq))

\* onLogs leaving its loop at the first log that cannot be saved
Deliver_StopsAtError(sub, logs, ioFails, elapsed) ==
  /\ mainPc = "watching"
  /\ sub \in watchers
  /\ deliveries < MaxDeliveries
  /\ logs # <<>>
  /\ ioFails => dbFailures < MaxDbFailures
  /\ LET saved == SaveLogToDatabase(tables, stats, Head(logs), abis[sub[2]].name, ioFails)
     IN /\ elapsed => ThrottleKeyOfSave(saved.outcome) \in DOMAIN throttledMessages
        /\ UNCHANGED <<lastSchemas, lastSummary>>
        /\ throttledMessages' = ThrottledBySave(throttledMessages, saved.outcome, elapsed)
        /\ tables' = saved.tables
        /\ lastSave' = LiveRecord(lastSave.n + 1, Head(logs), abis[sub[2]].name,
                                  saved.outcome, Len(Tail(logs)),
                                  Counted(Counts(Len(logs), 0, 0), saved.outcome))
        /\ stats' = saved.stats
        /\ dbFailures' = IF ioFails THEN dbFailures + 1 ELSE dbFailures
        /\ inflight' = IF Tail(logs) = <<>> \/ saved.outcome = "error" THEN inflight
                       ELSE Append(inflight,
                                   [sub |-> sub, pending |-> Tail(logs),
                                    counts |-> Counted(Counts(Len(logs), 0, 0),
                                                       saved.outcome)])
  /\ deliveries' = deliveries + 1
  /\ UNCHANGED <<lbVars, mainPc, cfgVars, call, phePc, batchNumber, unit, drvVars, watchers>>

\* onLogs(logs) of an active subscription is invoked with a non-empty delivery:
\* the first saveLogToDatabase call is made before onLogs first suspends
Deliver(sub, logs, ioFails, elapsed) ==
  /\ mainPc = "watching"
  /\ sub \in watchers
  /\ deliveries < MaxDeliveries
  /\ logs # <<>>
  /\ ioFails => dbFailures < MaxDbFailures
  /\ LET saved == SaveLogToDatabase(tables, stats, Head(logs), abis[sub[2]].name, ioFails)
     IN /\ elapsed => ThrottleKeyOfSave(saved.outcome) \in DOMAIN throttledMessages
        /\ UNCHANGED <<lastSchemas, lastSummary>>
        /\ throttledMessages' = ThrottledBySave(throttledMessages, saved.outcome, elapsed)
        /\ tables' = saved.tables
        /\ lastSave' = LiveRecord(lastSave.n + 1, Head(logs), abis[sub[2]].name,
                                  saved.outcome, Len(Tail(logs)),
                                  Counted(Counts(Len(logs), 0, 0), saved.outcome))
        /\ stats' = saved.stats
        /\ dbFailures' = IF ioFails THEN dbFailures + 1 ELSE dbFailures
        /\ inflight' = IF Tail(logs) = <<>> THEN inflight
                       ELSE Append(inflight,
                                   [sub |-> sub, pending |-> Tail(logs),
                                    counts |-> Counted(Counts(Len(logs), 0, 0),
                                                       saved.outcome)])
  /\ deliveries' = deliveries + 1
  /\ UNCHANGED <<lbVars, mainPc, cfgVars, call, phePc, batchNumber, unit, drvVars, watchers>>

\* a later pass of onLogs' loop, for the k-th delivery being processed:
\* await saveLogToDatabase(log, abi.name)
LiveSave(k, ioFails, elapsed) ==
  /\ mainPc = "watching"
  /\ k \in 1..Len(inflight)
  /\ ioFails => dbFailures < MaxDbFailures
  /\ LET d == inflight[k]
         saved == SaveLogToDatabase(tables, stats, Head(d.pending),
                                    abis[d.sub[2]].name, ioFails)
     IN /\ elapsed => ThrottleKeyOfSave(saved.outcome) \in DOMAIN throttledMessages
        /\ UNCHANGED <<lastSchemas, lastSummary>>
        /\ throttledMessages' = ThrottledBySave(throttledMessages, saved.outcome, elapsed)
        /\ tables' = saved.tables
        /\ lastSave' = LiveRecord(lastSave.n + 1, Head(d.pending), abis[d.sub[2]].name,
                                  saved.outcome, Len(Tail(d.pending)),
                                  Counted(d.counts, saved.outcome))
        /\ stats' = saved.stats
        /\ dbFailures' = IF ioFails THEN dbFailures + 1 ELSE dbFailures
        /\ inflight' = IF Tail(d.pending) = <<>>
                       THEN Without(inflight, k)
                       ELSE [inflight EXCEPT ![k].pending = Tail(@),
                                             ![k].counts = Counted(@, saved.outcome)]
  /\ UNCHANGED <<lbVars, mainPc, cfgVars, call, phePc, batchNumber, unit, drvVars,
                 watchers, deliveries>>

\* a shutdown that calls no unwatch function
Shutdown_UnwatchesNone ==
  /\ mainPc = "watching"
  /\ mainPc' = "stopped"
  /\ UNCHANGED <<lbVars, cfgVars, call, phePc, batchNumber, unit, drvVars, dbVars, liveVars>>

\* onError(error) of an active subscription: the error is logged (throttled),
\* nothing else; the call records how far the watcher had got
SubscriptionError(sub, elapsed) ==
  /\ mainPc = "watching"
  /\ sub \in watchers
  /\ IF "subscription_errors" \in DOMAIN throttledMessages
     THEN throttledMessages["subscription_errors"] < MaxDeliveries
     ELSE ~elapsed
  /\ throttledMessages' = Throttled(throttledMessages, "subscription_errors", elapsed)
  /\ call' = Returned(Call("onError", sub),
                      [saves |-> lastSave.n, deliveries |-> deliveries])
  /\ UNCHANGED <<lbVars, mainPc, cfgVars, phePc, batchNumber, unit, drvVars, tables,
                 stats, dbFailures, lastSave, lastSchemas, lastSummary, liveVars>>

\* SIGINT / SIGTERM: every unwatch function is called, then process.exit(0)
Shutdown ==
  /\ mainPc = "watching"
  /\ watchers' = {}
  /\ mainPc' = "stopped"
  /\ UNCHANGED <<lbVars, cfgVars, call, phePc, batchNumber, unit, drvVars, dbVars,
                 inflight, deliveries>>

(***************************************************************************)
(* The whole indexer.                                                      *)
(***************************************************************************)
Config(contracts, events, start, height) ==
  [contractAddresses |-> contracts, abis |-> events, startBlock |-> start,
   config |-> DefaultTuning, chainHeight |-> height]

\* a configuration whose file or environment sets batchSize and retry.maxRetries
Tuned(cfg, size, maxRetries) == [cfg EXCEPT !.config = Tuning(size, maxRetries)]

\* the runs: every small block interval (with the start block 0, and with none
\* configured) on one contract, the widest of them on two contracts and with a
\* batch size of 2 and a single retry configured, an interval of two batches,
\* the single block 100, the blocks 1 to 100, and the configurations without a
\* contract or an event
Configs ==
  { Config(<<AddrA>>, <<Transfer>>, s, h) : s \in 0..MaxBlock, h \in 1..MaxBlock }
    \cup { Config(<<AddrA>>, <<Transfer>>, NoValue, h) : h \in 1..MaxBlock }
    \cup { Config(<<AddrA, AddrB>>, <<Transfer>>, 1, MaxBlock),
           Tuned(Config(<<AddrA>>, <<Transfer>>, 1, MaxBlock), 2, 1),
           Config(<<AddrA>>, <<Transfer>>, 100, 100),
           Config(<<AddrA>>, <<Transfer>>, 1, 100),
           Config(<<AddrA>>, <<Transfer>>, 1, 1002),
           Config(<<>>, <<Transfer>>, 1, 2),
           Config(<<AddrA>>, <<>>, 1, 2) }

Init ==
  /\ InitBatcher
  /\ mainPc = "start"
  /\ \E cfg \in Configs :
       /\ contractAddresses = cfg.contractAddresses
       /\ abis = cfg.abis
       /\ startBlock = cfg.startBlock
       /\ bindexerConfig = cfg.config
       /\ chainHeight = cfg.chainHeight
  /\ phePc = "idle"
  /\ batchNumber = 0
  /\ unit = <<0, 0>>
  /\ stack = <<>>
  /\ rpc = NoExchange
  /\ rpcCount = 0
  /\ failures = 0
  /\ lastReturn = NoReturn
  /\ tables = [t \in {} |-> <<>>]
  /\ stats = EmptyStats
  /\ throttledMessages = NoThrottled
  /\ lastSchemas = NoSchemas
  /\ lastSummary = NoSummary
  /\ call = NoCall
  /\ dbFailures = 0
  /\ lastSave = NoSave
  /\ watchers = {}
  /\ inflight = <<>>
  /\ deliveries = 0

Next ==
  \/ MainGenerateSchemas
  \/ MainSkipsBackfill
  \/ PheRejects
  \/ PheGetBlockNumberFails
  \/ PheStarts
  \/ LtbInvoke
  \/ CallbackStarts
  \/ GetLogsSucceeds
  \/ \E d \in ClientErrors : GetLogsFails(d)
  \/ Wake
  \/ \E ioFails, elapsed \in BOOLEAN : ProcessLog(ioFails, elapsed)
  \/ LtbCbReturned
  \/ LtbReturn
  \/ PheReturns
  \/ SetupEventWatchers
  \/ \E sub \in watchers : \E ioFails, elapsed \in BOOLEAN :
       \E logs \in LiveBatches(contractAddresses[sub[1]], abis[sub[2]]) :
         Deliver(sub, logs, ioFails, elapsed)
  \/ \E k \in 1..Len(inflight) : \E ioFails, elapsed \in BOOLEAN :
       LiveSave(k, ioFails, elapsed)
  \/ Shutdown

Spec == Init /\ [][Next]_vars

(***************************************************************************)
(* The Backfill Driver on its own: the callback of the first batch has     *)
(* just been entered for one contract and one event, and the chain client  *)
(* may fail any request, any number of times.                              *)
(***************************************************************************)
\* the batch ranges tried: every one of at least two blocks (the ranges of a
\* single block come up as halves)
DriverRanges ==
  { r \in (1..MaxBlock) \X (1..MaxBlock) : r[1] < r[2] }

\* a getLogs request fails, with no limit on the number of failures
DriverGetLogsFails(d) ==
  /\ CatchGetLogsError(d)
  /\ UNCHANGED failures

\* the state after loopThroughBlocks(f, t, cb) invoked cb(f, t) and the
\* callback started its only unit
InitDriver ==
  /\ \E r \in DriverRanges :
       /\ startBlock = r[1]
       /\ bindexerConfig = DefaultTuning
       /\ chainHeight = r[2]
       /\ firstBlock = r[1]
       /\ lastBlock = r[2]
       /\ currentBlock = r[1]
       /\ nextBlock = NextBlockOf(r[1], DefaultBatchSize, r[2])
       /\ cbCalls = << r >>
       /\ stack = << NewFrame(r[1], r[2]) >>
  /\ lbPc = "cb"
  /\ batchSize = DefaultBatchSize
  /\ processedBlocks = 0
  /\ batchCount = 1
  /\ lbCaught = 0
  /\ lbResult = NoValue
  /\ cbState = "running"
  /\ mainPc = "backfill"
  /\ \E a \in {AddrA, AddrB} : contractAddresses = <<a>>
  /\ abis = <<Transfer>>
  /\ phePc = "running"
  /\ batchNumber = 1
  /\ unit = <<1, 1>>
  /\ rpc = NoExchange
  /\ rpcCount = 0
  /\ failures = 0
  /\ lastReturn = NoReturn
  /\ tables = GenerateDatabaseSchemas([t \in {} |-> <<>>], <<Transfer>>, 1, {}).tables
  /\ stats = EmptyStats
  /\ throttledMessages = NoThrottled
  /\ lastSchemas = NoSchemas
  /\ lastSummary = NoSummary
  /\ call = NoCall
  /\ dbFailures = 0
  /\ lastSave = NoSave
  /\ watchers = {}
  /\ inflight = <<>>
  /\ deliveries = 0

NextDriver ==
  \/ GetLogsSucceeds
  \/ \E d \in ClientErrors : DriverGetLogsFails(d)
  \/ Wake
  \/ \E ioFails, elapsed \in BOOLEAN : ProcessLog(ioFails, elapsed)

SpecDriver == InitDriver /\ [][NextDriver]_vars

\* every request is answered, every timer fires, every insert returns
LiveSpecDriver == SpecDriver /\ WF_vars(NextDriver)

(***************************************************************************)
(* The Live Watcher on its own: runIndexer is about to call                *)
(* setupEventWatchers, on one or two contracts, and the subscriptions may  *)
(* report errors.                                                          *)
(***************************************************************************)
\* the table of the event as the start-up and the backfill may have left it:
\* empty, or with the first log of the first contract
LiveTables ==
  LET empty == GenerateDatabaseSchemas([t \in {} |-> <<>>], <<Transfer>>, 1, {}).tables
      first == InChainOrder(MatchingLogs(AddrA, Transfer, 0, 10000))[1]
  IN {empty, SaveLogToDatabase(empty, EmptyStats, first, "Transfer", FALSE).tables}

InitLive ==
  /\ InitBatcher
  /\ mainPc = "setup"
  /\ contractAddresses \in {<<AddrA>>, <<AddrA, AddrB>>}
  /\ abis = <<Transfer>>
  /\ startBlock = NoValue
  /\ bindexerConfig = DefaultTuning
  /\ chainHeight = MaxBlock
  /\ phePc = "idle"
  /\ batchNumber = 0
  /\ unit = <<0, 0>>
  /\ stack = <<>>
  /\ rpc = NoExchange
  /\ rpcCount = 0
  /\ failures = 0
  /\ lastReturn = NoReturn
  /\ tables \in LiveTables
  /\ stats = EmptyStats
  /\ throttledMessages = NoThrottled
  /\ lastSchemas = NoSchemas
  /\ lastSummary = NoSummary
  /\ call = NoCall
  /\ dbFailures = 0
  /\ lastSave = NoSave
  /\ watchers = {}
  /\ inflight = <<>>
  /\ deliveries = 0

\* the deliveries of the watcher on its own: also the first log of the
\* contract together with its third
LiveBatchesOwn(address, abi) ==
  LET mine == InChainOrder(MatchingLogs(address, abi, 0, 10000)) IN
  LiveBatches(address, abi)
    \cup (IF Len(mine) >= 3 THEN {<<mine[1], mine[3]>>} ELSE {})

NextLive ==
  \/ SetupEventWatchers
  \/ \E sub \in watchers : \E ioFails, elapsed \in BOOLEAN :
       \E logs \in LiveBatchesOwn(contractAddresses[sub[1]], abis[sub[2]]) :
         Deliver(sub, logs, ioFails, elapsed)
  \/ \E k \in 1..Len(inflight) : \E ioFails, elapsed \in BOOLEAN :
       LiveSave(k, ioFails, elapsed)
  \/ \E sub \in watchers, elapsed \in BOOLEAN : SubscriptionError(sub, elapsed)
  \/ Shutdown

SpecLive == InitLive /\ [][NextLive]_vars

(***************************************************************************)
(* getSqlTypeFromEthType on its own, called on every type tag.             *)
(***************************************************************************)
InitIdle ==
  /\ InitBatcher
  /\ mainPc = "idle"
  /\ contractAddresses = <<>>
  /\ abis = <<>>
  /\ startBlock = NoValue
  /\ bindexerConfig = DefaultTuning
  /\ chainHeight = 0
  /\ phePc = "idle"
  /\ batchNumber = 0
  /\ unit = <<0, 0>>
  /\ stack = <<>>
  /\ rpc = NoExchange
  /\ rpcCount = 0
  /\ failures = 0
  /\ lastReturn = NoReturn
  /\ tables = [t \in {} |-> <<>>]
  /\ stats = EmptyStats
  /\ throttledMessages = NoThrottled
  /\ lastSchemas = NoSchemas
  /\ lastSummary = NoSummary
  /\ dbFailures = 0
  /\ lastSave = NoSave
  /\ watchers = {}
  /\ inflight = <<>>
  /\ deliveries = 0

InitTypes ==
  /\ InitIdle
  /\ \E ethType \in EthTypes : call = Call("getSqlTypeFromEthType", ethType)

ReturnSqlType ==
  /\ call.fn = "getSqlTypeFromEthType"
  /\ ~call.done
  /\ call' = Returned(call, GetSqlTypeFromEthType(call.arg))
  /\ UNCHANGED <<lbVars, mainPc, cfgVars, phePc, batchNumber, unit, drvVars, dbVars,
                 liveVars>>

NextTypes == ReturnSqlType

SpecTypes == InitTypes /\ [][NextTypes]_vars

(***************************************************************************)
(* The catch block of processContractEventRange on its own: the same       *)
(* getLogs failure reaches two units, of any contract and block range, on  *)
(* the same attempt.                                                       *)
(***************************************************************************)
\* what the catch block decides when getLogs rejected with description d for
\* the unit u: the message is the one getContractLogs throws
Handling(d, u, retryCount) ==
  CatchBlock(retryCount, GetContractLogsError(d, u.address, Transfer, u.fromBlock, u.toBlock),
             u.fromBlock, u.toBlock, DefaultMaxRetries)

\* the units: both contracts, on a range of two blocks, of one block, and on
\* the blocks 429 to 430
CatchUnits ==
  [address : {AddrA, AddrB}, fromBlock : {1}, toBlock : {1, 2}]
    \cup [address : {AddrA, AddrB}, fromBlock : {429}, toBlock : {430}]

InitCatch ==
  /\ InitIdle
  /\ \E d \in ClientErrors, u1, u2 \in CatchUnits, n \in 1..(DefaultMaxRetries + 1) :
       call = Call("catch", [description |-> d, units |-> <<u1, u2>>, retryCount |-> n])

ReturnHandling ==
  /\ call.fn = "catch"
  /\ ~call.done
  /\ call' = Returned(call, [i \in 1..2 |->
                               Handling(call.arg.description, call.arg.units[i],
                                        call.arg.retryCount)])
  /\ UNCHANGED <<lbVars, mainPc, cfgVars, phePc, batchNumber, unit, drvVars, dbVars,
                 liveVars>>

NextCatch == ReturnHandling

SpecCatch == InitCatch /\ [][NextCatch]_vars

(***************************************************************************)
(* The database file across runs of the process: logs.sqlite is kept from  *)
(* one run to the next, and every run begins with generateDatabaseSchemas. *)
(***************************************************************************)
\* the event lists of the runs: one descriptor, and the same descriptor twice
SchemaAbis == { <<Transfer>>, <<Transfer, Transfer>> }

InitSchemas ==
  /\ InitBatcher
  /\ mainPc = "start"
  /\ contractAddresses = <<AddrA>>
  /\ abis \in SchemaAbis
  /\ startBlock = NoValue
  /\ bindexerConfig = DefaultTuning
  /\ chainHeight = MaxBlock
  /\ phePc = "idle"
  /\ batchNumber = 0
  /\ unit = <<0, 0>>
  /\ stack = <<>>
  /\ rpc = NoExchange
  /\ rpcCount = 0
  /\ failures = 0
  /\ lastReturn = NoReturn
  /\ tables = [t \in {} |-> <<>>]
  /\ stats = EmptyStats
  /\ throttledMessages = NoThrottled
  /\ lastSchemas = NoSchemas
  /\ lastSummary = NoSummary
  /\ call = NoCall
  /\ dbFailures = 0
  /\ lastSave = NoSave
  /\ watchers = {}
  /\ inflight = <<>>
  /\ deliveries = 0

\* a Transfer of 1000000000000000000 (10^18) units
EtherLog ==
  [address |-> AddrA, eventName |-> "Transfer", blockNumber |-> 2,
   transactionHash |-> "0xt2e", logIndex |-> 0, args |-> <<S("0xf"), S("0xt"), E(1, 18)>>]

\* the logs a run can meet: those of its contract, in the blocks of the chain
RunLogs ==
  { l \in ChainLogs : l.address = AddrA /\ l.blockNumber \in Nat
                                        /\ l.blockNumber <= MaxBlock }
    \cup {EtherLog}

\* the event names asked of the API: none, and the configured event
RequestedEvents == {"", "Transfer"}

\* GET /api/events[?eventName=...] on the API server of the run
ApiGetEvents(eventName, ioFails) ==
  /\ mainPc = "ready"
  /\ ioFails => dbFailures < MaxDbFailures
  /\ call' = Returned(Call("GET /api/events", [eventName |-> eventName, ioFails |-> ioFails]),
                      [success |-> TRUE,
                       data |-> GetLogsFromDatabase(tables, eventName, DefaultLimit, 0,
                                                    ioFails)])
  /\ dbFailures' = IF ioFails THEN dbFailures + 1 ELSE dbFailures
  /\ UNCHANGED <<lbVars, mainPc, cfgVars, phePc, batchNumber, unit, drvVars, tables,
                 stats, lastSave, throttledMessages, lastSchemas, lastSummary, liveVars>>

\* a saveLogToDatabase call of the run, for one of these logs
RunStores(log, ioFails) ==
  /\ mainPc = "ready"
  /\ lastSave.n < MaxStores
  /\ ioFails => dbFailures < MaxDbFailures
  /\ LET saved == SaveLogToDatabase(tables, stats, log, log.eventName, ioFails)
     IN /\ tables' = saved.tables
        /\ stats' = saved.stats
        /\ throttledMessages' = ThrottledBySave(throttledMessages, saved.outcome, FALSE)
        /\ lastSave' = SaveRecord(lastSave.n + 1, log, log.eventName, "backfill",
                                  saved.outcome)
  /\ dbFailures' = IF ioFails THEN dbFailures + 1 ELSE dbFailures
  /\ UNCHANGED <<lbVars, mainPc, cfgVars, call, phePc, batchNumber, unit, drvVars,
                 lastSchemas, lastSummary, liveVars>>

\* the process ends and is started again: what it held in memory is gone, the
\* database file is the one the run before left
ProcessRestarts ==
  /\ mainPc = "ready"
  /\ mainPc' = "start"
  /\ stats' = EmptyStats
  /\ throttledMessages' = NoThrottled
  /\ lastSave' = NoSave
  /\ dbFailures' = 0
  /\ call' = NoCall
  /\ lastSummary' = NoSummary
  /\ UNCHANGED <<lbVars, cfgVars, phePc, batchNumber, unit, drvVars, tables,
                 lastSchemas, liveVars>>

NextSchemas ==
  \/ MainGenerateSchemas
  \/ \E log \in RunLogs, ioFails \in BOOLEAN : RunStores(log, ioFails)
  \/ \E eventName \in RequestedEvents, ioFails \in BOOLEAN : ApiGetEvents(eventName, ioFails)
  \/ ProcessRestarts

SpecSchemas == InitSchemas /\ [][NextSchemas]_vars

(***************************************************************************)
(* parseCommandLineArgs and the ConfigManager.  A configuration is a       *)
(* record of optional fields: <<>> for a field that is undefined, <<v>>    *)
(* for one that has the value v.                                           *)
(***************************************************************************)
\* an address that is not 0x followed by hexadecimal characters
BadAddress == <<"0", "x", "z", "z">>

\* the event signature "Transfer(address,address,uint256)", and one without
\* parentheses
TransferSignature == <<"Transfer", "(", "address", ",", "address", ",", "uint256", ")">>
BadSignature == <<"Transfer">>

\* DEFAULT_NETWORKS: the names of the known networks
DefaultNetworks == {"mainnet", "sepolia", "holesky", "polygon", "arbitrum"}

HexTokens ==
  {"0", "1", "2", "3", "4", "5", "6", "7", "8", "9", "a", "b", "c", "d", "e", "f",
   "A", "B", "C", "D", "E", "F"}

PartialConfig(contracts, events, network, start, profiles) ==
  [contracts |-> contracts, events |-> events, network |-> network,
   startBlock |-> start, profiles |-> profiles]

\* DEFAULT_CONFIG names no contract, no event and no network
DefaultConfig == PartialConfig(<<>>, <<>>, <<>>, <<>>, <<>>)

\* mergeConfigs(base, override): a field the override defines replaces the
\* base's (arrays and primitive values are not merged)
MergeConfigs(base, override) ==
  [f \in DOMAIN base |-> IF override[f] = <<>> THEN base[f] ELSE override[f]]

\* validateContract: the address is 0x followed by hexadecimal characters
\* (40 of them; the addresses of the model are shortened)
ValidContract(address) ==
  /\ StartsWith(address, <<"0", "x">>)
  /\ Len(address) > 2
  /\ \A i \in 3..Len(address) : address[i] \in HexTokens

\* validateEvent: the signature has both parentheses
ValidEvent(signature) ==
  /\ Includes(signature, <<"(">>)
  /\ Includes(signature, <<")">>)

\* a network is a name, or (normalized) the description of a network
NetworkName(name) == <<"name", name>>
NetworkObject(name) == <<"object", name>>

\* validateNetwork
ValidNetwork(network) ==
  network[1] = "name" => network[2] \in DefaultNetworks

\* validateConfig does not throw
ValidConfig(config) ==
  /\ config.contracts # <<>>
  /\ config.contracts[1] # <<>>
  /\ config.events # <<>>
  /\ config.events[1] # <<>>
  /\ config.network # <<>>
  /\ \A i \in 1..Len(config.contracts[1]) : ValidContract(config.contracts[1][i])
  /\ \A i \in 1..Len(config.events[1]) : ValidEvent(config.events[1][i])
  /\ ValidNetwork(config.network[1])

\* normalizeConfig does not throw: the network's name is known, and the lists
\* it maps over are there
Normalizable(config) ==
  /\ config.network # <<>> => ValidNetwork(config.network[1])
  /\ config.contracts # <<>>
  /\ config.events # <<>>

\* normalizeConfig: the name of a network becomes its description
NormalizeConfig(config) ==
  [config EXCEPT !.network =
     IF @ # <<>> /\ @[1][1] = "name" THEN <<NetworkObject(@[1][2])>> ELSE @]

\* how a step of the configuration ends: with a configuration, or by throwing
Loaded(config) == [ok |-> TRUE, config |-> config]
Thrown == [ok |-> FALSE, config |-> DefaultConfig]

\* ConfigManager.loadConfig: the defaults, the configuration file if one is
\* given or discovered (<<>>: none), the environment; then validated
LoadConfig(file, env) ==
  LET fromFile == IF file = <<>> THEN DefaultConfig ELSE MergeConfigs(DefaultConfig, file[1])
      config == MergeConfigs(fromFile, env)
  IN IF ValidConfig(config) THEN Loaded(NormalizeConfig(config)) ELSE Thrown

\* what main gets from parseCommandLineArgs: an action with a configuration,
\* or nothing because the process has exited with code 1
Parsed(action, config) == [action |-> action, config |-> config]
Exited == Parsed("exit", DefaultConfig)

\* the command-line overrides: --contract, --event, --network, --startBlock
CliConfig(argv) ==
  PartialConfig(argv.contract, argv.event, argv.network, argv.startBlock, <<>>)

\* parseCommandLineArgs without the special commands: the configuration is
\* loaded and validated, the command line is merged in, then the profile if
\* one is named and exists (not validated again), else the result is validated
ParseCommandLineArgs(argv, file, env) ==
  LET loaded == LoadConfig(file, env)
      finalConfig == MergeConfigs(loaded.config, CliConfig(argv))
      profiled == MergeConfigs(finalConfig, finalConfig.profiles[1][2])
  IN IF ~loaded.ok THEN Exited
     ELSE IF /\ argv.profile # <<>>
             /\ finalConfig.profiles # <<>>
             /\ finalConfig.profiles[1][1] = argv.profile[1]
     THEN IF Normalizable(profiled) THEN Parsed("run", NormalizeConfig(profiled)) ELSE Exited
     ELSE IF ValidConfig(finalConfig) THEN Parsed("run", NormalizeConfig(finalConfig))
     ELSE Exited

\* the command lines
Argvs ==
  [contract : {<<>>, <<<<AddrA>>>>, <<<<AddrA, AddrB>>>>, <<<<BadAddress>>>>},
   event : {<<>>, <<<<TransferSignature>>>>, <<<<BadSignature>>>>},
   network : {<<>>, <<NetworkName("mainnet")>>, <<NetworkName("devnet")>>},
   startBlock : {<<>>, <<0>>, <<1>>},
   profile : {<<>>, <<"production">>}]

\* the profile of the configuration files: it overrides the contracts
ProductionProfile(contracts) ==
  <<"production", PartialConfig(<<contracts>>, <<>>, <<>>, <<>>, <<>>)>>

\* the configuration files: none; a complete one; one with a profile
ConfigFiles ==
  { <<>>,
    <<PartialConfig(<<<<AddrB>>>>, <<<<TransferSignature>>>>, <<NetworkName("sepolia")>>,
                    <<>>, <<>>)>>,
    <<PartialConfig(<<<<AddrB>>>>, <<<<TransferSignature>>>>, <<NetworkName("sepolia")>>,
                    <<>>, <<ProductionProfile(<<AddrA>>)>>)>>,
    <<PartialConfig(<<<<AddrB>>>>, <<<<TransferSignature>>>>, <<NetworkName("sepolia")>>,
                    <<>>, <<ProductionProfile(<<BadAddress>>)>>)>> }

\* the environments: no BINDEXER_ variable, and BINDEXER_NETWORK
Environments ==
  { DefaultConfig,
    PartialConfig(<<>>, <<>>, <<NetworkName("polygon")>>, <<>>, <<>>) }

InitCli ==
  /\ InitIdle
  /\ \E argv \in Argvs, file \in ConfigFiles, env \in Environments :
       call = Call("parseCommandLineArgs", [argv |-> argv, file |-> file, env |-> env])

ReturnParsedArgs ==
  /\ call.fn = "parseCommandLineArgs"
  /\ ~call.done
  /\ call' = Returned(call, ParseCommandLineArgs(call.arg.argv, call.arg.file, call.arg.env))
  /\ UNCHANGED <<lbVars, mainPc, cfgVars, phePc, batchNumber, unit, drvVars, dbVars,
                 liveVars>>

NextCli == ReturnParsedArgs

SpecCli == InitCli /\ [][NextCli]_vars

(***************************************************************************)
(* Properties.                                                             *)
(***************************************************************************)
\* a getLogs request was answered in this step
GetLogsAnswered == rpcCount' = rpcCount + 1

\* a failure description of the too-many-logs kind
TooManyLogsDescription(d) ==
  \/ Includes(d, <<"Log", "response", "size", "exceeded">>)
  \/ Includes(d, <<"too", "many", "logs">>)

\* a failure description of the rate-limit kind
RateLimitDescription(d) ==
  Includes(d, <<"rate", "limit">>) \/ Includes(d, <<"4", "2", "9">>)

\* the invocation that was on top of the stack is now waiting for its first
\* half [from, mid], a fresh invocation
SplitInTwo ==
  /\ Len(stack') = Len(stack) + 1
  /\ stack'[Len(stack)].pc = "split1"
  /\ stack'[Len(stack)].fromBlock = rpc'.fromBlock
  /\ stack'[Len(stack)].toBlock = rpc'.toBlock
  /\ Top(stack') = NewFrame(rpc'.fromBlock,
                            rpc'.fromBlock + ((rpc'.toBlock - rpc'.fromBlock) \div 2))

\* C1: a getLogs failure whose description has "Log response size exceeded"
\* or "too many logs" in it, on a range of more than one block, makes
\* processContractEventRange split the range at its midpoint and start on the
\* first half (the second half follows when the first has returned).
C1_TooManyLogsSplits ==
  [][ ( /\ GetLogsAnswered
        /\ TooManyLogsDescription(rpc'.outcome)
        /\ rpc'.fromBlock < rpc'.toBlock )
      => SplitInTwo ]_vars

\* the ranges handed to the callback tile [first, last]
Tiles(calls, first, last) ==
  /\ Len(calls) >= 1
  /\ calls[1][1] = first
  /\ calls[Len(calls)][2] = last
  /\ \A i \in 1..Len(calls) : calls[i][1] <= calls[i][2]
  /\ \A i \in 1..(Len(calls) - 1) : calls[i + 1][1] = calls[i][2] + 1

\* C2: for firstBlock <= lastBlock and batchSize >= 1 the ranges passed to the
\* callback, once loopThroughBlocks has returned, tile [firstBlock, lastBlock].
C2_RangesTileInterval ==
  (lbPc = "done" /\ firstBlock <= lastBlock /\ batchSize >= 1)
    => Tiles(cbCalls, firstBlock, lastBlock)

\* C3: every range passed to the callback holds at most batchSize blocks.
C3_RangeWithinBatchSize ==
  lbPc # "idle" =>
    \A i \in 1..Len(cbCalls) : cbCalls[i][2] - cbCalls[i][1] + 1 <= batchSize

\* the rows of the event's table
RowsOf(eventName) ==
  IF TableName(eventName) \in DOMAIN tables THEN tables[TableName(eventName)].rows
  ELSE <<>>

\* C4: a backfill from start block 100 at chain height 100, the chain client
\* and the storage working, has invoked the callback exactly once, with
\* (100, 100), when loopThroughBlocks returns, and has left exactly one row, of
\* block 100, in the Transfer table.
C4_SingleBlockBackfill ==
  ( /\ mainPc = "backfill"
    /\ lbPc = "done"
    /\ startBlock = 100
    /\ chainHeight = 100
    /\ TableName("Transfer") \in DOMAIN tables
    /\ failures = 0
    /\ dbFailures = 0 )
  => /\ cbCalls = << <<100, 100>> >>
     /\ Len(RowsOf("Transfer")) = 1
     /\ RowsOf("Transfer")[1].block_number = 100

\* C5: loopThroughBlocks over [1, 10000] with batch size 4999 calls back exactly
\* three times: [1,4999], [5000,9998], [9999,10000].
C5_ThreeBatches ==
  (lbPc = "done" /\ firstBlock = 1 /\ lastBlock = 10000 /\ batchSize = 4999)
    => cbCalls = << <<1, 4999>>, <<5000, 9998>>, <<9999, 10000>> >>

\* C6: with firstBlock > lastBlock loopThroughBlocks never invokes the callback
\* (no range is emitted, the callback is neither running nor answered) and
\* returns lastBlock, no error caught or raised on the way.
C6_EmptyIntervalNoCallback ==
  (lbPc # "idle" /\ firstBlock > lastBlock)
    => /\ cbCalls = <<>>
       /\ batchCount = 0
       /\ cbState = "none"
       /\ lbCaught = 0
       /\ lbPc \in {"loop", "done"}
       /\ (lbPc = "done" => lbResult = lastBlock)

C6_Witness ==
  lbPc = "done" /\ firstBlock > lastBlock /\ lbResult = lastBlock

\* a saveLogToDatabase call was made in this step
SaveCalled == lastSave'.n = lastSave.n + 1

RowsIn(tbls, eventName) ==
  IF TableName(eventName) \in DOMAIN tbls THEN tbls[TableName(eventName)].rows
  ELSE <<>>

\* the positions of the rows with a given (transaction_hash, log_index)
KeyRows(rows, hash, logIndex) ==
  { k \in 1..Len(rows) : rows[k].transaction_hash = hash /\ rows[k].log_index = logIndex }

\* the duplicate counter of the current batch
Duplicates(sts) ==
  IF CurrentBatch \in DOMAIN sts THEN sts[CurrentBatch].duplicates ELSE 0

\* C7: a saveLogToDatabase call (the storage working) for a log whose
\* (transaction_hash, log_index) is already stored in the event's table
\* increments the duplicate counter and writes nothing: every table is as it
\* was, and the key still has exactly one row.
C7_SecondInsertIsDuplicate ==
  [][ ( /\ SaveCalled
        /\ dbFailures' = dbFailures
        /\ KeyRows(RowsIn(tables, lastSave'.eventName),
                   lastSave'.transactionHash, lastSave'.logIndex) # {} )
      => /\ tables' = tables
         /\ lastSave'.outcome = "duplicate"
         /\ Duplicates(stats') = Duplicates(stats) + 1
         /\ Cardinality(KeyRows(RowsIn(tables', lastSave'.eventName),
                                lastSave'.transactionHash, lastSave'.logIndex)) = 1
    ]_vars

C7_Witness ==
  /\ lastSave.outcome = "duplicate"
  /\ Duplicates(stats) >= 1
  /\ Cardinality(KeyRows(RowsIn(tables, lastSave.eventName),
                         lastSave.transactionHash, lastSave.logIndex)) = 1

\* C8: every table holds at most one row per (transaction_hash, log_index),
\* whatever backfill inserts and live inserts were made and however the
\* deliveries of the subscriptions interleaved.
C8_UniqueKeyPerTable ==
  \A t \in DOMAIN tables :
    \A i, j \in 1..Len(tables[t].rows) :
      ( /\ tables[t].rows[i].transaction_hash = tables[t].rows[j].transaction_hash
        /\ tables[t].rows[i].log_index = tables[t].rows[j].log_index )
      => i = j

\* two deliveries are being processed at once, both about to save the same
\* log, after a live insert that found its key stored
C8_Witness ==
  /\ mainPc = "watching"
  /\ Len(inflight) = 2
  /\ inflight[1].pending = inflight[2].pending
  /\ lastSave.caller = "live"
  /\ lastSave.outcome = "duplicate"
  /\ Len(RowsOf("Transfer")) >= 1

\* C9: no invocation of processContractEventRange ends by throwing: the
\* per-batch callback never rejects and the loop of the Range Batcher never
\* has an error to catch, whatever getLogs and the inserts did.
C9_DriverNeverThrows ==
  /\ cbState # "threw"
  /\ lastReturn.how \in {"none", "success", "skip", "fail"}
  /\ lbCaught = 0

\* a unit ended as failed after its retries, and an insert failed, in one run
C9_Witness ==
  /\ lastReturn.how = "fail"
  /\ dbFailures >= 1
  /\ failures >= 4
  /\ cbState # "threw"

\* the callback goes on after the outermost invocation returned: with the
\* next unit on the same batch range, or by resolving after the last unit
GoesOn ==
  /\ cbState' # "threw"
  /\ Len(stack) = 1 =>
       IF NextUnit(unit) # <<0, 0>>
       THEN /\ unit' = NextUnit(unit)
            /\ stack' = <<NewFrame(cbCalls[Len(cbCalls)][1], cbCalls[Len(cbCalls)][2])>>
       ELSE /\ cbState' = "returned"
            /\ stack' = <<>>

\* C10: with maxRetries = 3 a rate-limit failure of getLogs is followed by a
\* retry of the same range while it is the first, second or third attempt of
\* the invocation; the fourth attempt failing so ends the invocation as failed
\* (4 attempts, nothing thrown) and the callback goes on with the next unit or
\* resolves; and a resolved callback makes the Range Batcher move to the block
\* after the range.
C10_RateLimitFourAttempts ==
  [][ /\ ( GetLogsAnswered /\ RateLimitDescription(rpc'.outcome) ) =>
           IF Top(stack).attempts + 1 <= DefaultMaxRetries
           THEN /\ Len(stack') = Len(stack)
                /\ Top(stack').pc = "sleep"
                /\ Top(stack').fromBlock = Top(stack).fromBlock
                /\ Top(stack').toBlock = Top(stack).toBlock
                /\ Top(stack').attempts = Top(stack).attempts + 1
           ELSE /\ lastReturn'.how = "fail"
                /\ lastReturn'.attempts = 4
                /\ lastReturn'.fromBlock = Top(stack).fromBlock
                /\ lastReturn'.toBlock = Top(stack).toBlock
                /\ GoesOn
      /\ ( mainPc = "backfill" /\ cbState = "returned" ) =>
           /\ lbPc' = "loop"
           /\ currentBlock' = nextBlock + 1
    ]_vars

\* the first unit has just failed on its fourth rate-limited attempt and the
\* second unit is about to be fetched
C10_Witness ==
  /\ lastReturn.how = "fail"
  /\ lastReturn.attempts = 4
  /\ lastReturn.unit = <<1, 1>>
  /\ RateLimitDescription(rpc.outcome)
  /\ unit = <<2, 1>>
  /\ Len(stack) = 1
  /\ Top(stack).pc = "fetch"
  /\ Top(stack).attempts = 0

\* the range of an invocation
RangeOf(frame) == <<frame.fromBlock, frame.toBlock>>

\* C11: an invocation on [a, b] that splits has a < b and starts a fresh
\* invocation on [a, mid], mid = a + floor((b - a) / 2); when that one has
\* returned it starts a fresh invocation on [mid + 1, b], and when that one has
\* returned it returns itself.  Both halves are non-empty, the second begins
\* one block after the end of the first, and they begin and end where [a, b] does.
C11_SplitHalves ==
  [][ \A i \in 1..Len(stack) :
        LET p == stack[i]
            a == p.fromBlock
            b == p.toBlock
            mid == a + ((b - a) \div 2)
        IN /\ ( p.pc = "fetch" /\ i <= Len(stack') /\ stack'[i].pc = "split1" ) =>
                /\ a < b
                /\ Len(stack') = i + 1
                /\ stack'[i + 1] = NewFrame(a, mid)
                /\ a <= mid
           /\ p.pc = "split1" =>
                /\ i < Len(stack)
                /\ RangeOf(stack[i + 1]) = <<a, mid>>
                /\ i <= Len(stack')
                /\ RangeOf(stack'[i]) = <<a, b>>
                /\ stack'[i].pc \in {"split1", "split2"}
                /\ stack'[i].pc = "split2" =>
                     /\ Len(stack') = i + 1
                     /\ stack'[i + 1] = NewFrame(mid + 1, b)
                     /\ stack[i + 1].toBlock + 1 = stack'[i + 1].fromBlock
                     /\ mid + 1 <= b
           /\ p.pc = "split2" =>
                /\ i < Len(stack)
                /\ RangeOf(stack[i + 1]) = <<mid + 1, b>>
                /\ ( i < Len(stack') /\ SubSeq(stack', 1, i - 1) = SubSeq(stack, 1, i - 1) ) =>
                     /\ stack'[i] = p
                     /\ RangeOf(stack'[i + 1]) = <<mid + 1, b>>
    ]_vars

\* [1,3] was split into [1,2] and [3,3], its first half into [1,1] and [2,2],
\* and the last of these is about to be fetched
C11_Witness ==
  /\ Len(stack) = 3
  /\ RangeOf(stack[1]) = <<1, 3>>
  /\ stack[1].pc = "split1"
  /\ RangeOf(stack[2]) = <<1, 2>>
  /\ stack[2].pc = "split2"
  /\ stack[3] = NewFrame(2, 2)

\* the number of blocks of an invocation's range
Width(frame) == frame.toBlock - frame.fromBlock + 1

\* C12: processContractEventRange terminates whatever the chain client
\* answers: every invocation works on a non-empty range, a recursive invocation
\* on a strictly smaller range than the invocation that made it, only a range
\* of more than one block is ever split, no invocation makes more than
\* maxRetries + 1 attempts, and the outermost invocation eventually returns
\* (the callback resolves).
C12_DriverTerminates ==
  /\ [] ( \A i \in 1..Len(stack) :
            /\ Width(stack[i]) >= 1
            /\ i > 1 => Width(stack[i]) < Width(stack[i - 1])
            /\ stack[i].pc \in {"split1", "split2"} => Width(stack[i]) > 1
            /\ stack[i].attempts <= DefaultMaxRetries + 1 )
  /\ <> ( stack = <<>> /\ cbState = "returned" )

\* the callback has resolved on [1,3] after five requests that ended with the
\* single block 3 given up as having too many logs, and nothing was stored
C12_Witness ==
  /\ stack = <<>>
  /\ cbState = "returned"
  /\ cbCalls = << <<1, 3>> >>
  /\ rpcCount = 5
  /\ lastReturn.how = "skip"
  /\ lastReturn.fromBlock = 3
  /\ lastSave.n = 0
  /\ TooManyLogsDescription(rpc.outcome)

\* the blocks of the rows stored for the event, in the order they were stored
StoredBlocks(eventName) ==
  [k \in 1..Len(RowsOf(eventName)) |-> RowsOf(eventName)[k].block_number]

\* the run of the scenario: contract AddrA, blocks 1 to 100 in one batch, the
\* table of the event there, one getLogs failure so far and no storage failure
ScenarioC ==
  /\ mainPc = "backfill"
  /\ contractAddresses = <<AddrA>>
  /\ cbCalls = << <<1, 100>> >>
  /\ TableName("Transfer") \in DOMAIN tables
  /\ failures = 1
  /\ dbFailures = 0

\* C13: when the first getLogs request, on [1,100], fails with a failure of
\* the too-many-logs kind, the next request is the one on [1,50]; when [51,100]
\* is requested the logs of [1,50] (blocks 1, 3, 3) are stored already; and when
\* both halves have succeeded the callback resolves after exactly three
\* requests with the logs of blocks 1, 3, 3 and 100 stored once each, in that order.
C13_SplitScenario ==
  /\ [][ ( /\ ScenarioC'
           /\ GetLogsAnswered
           /\ rpcCount = 0
           /\ TooManyLogsDescription(rpc'.outcome) )
         => ( /\ Len(stack') = 2
              /\ Top(stack') = NewFrame(1, 50) ) ]_vars
  /\ [] ( ( /\ ScenarioC
            /\ Len(stack) = 2
            /\ stack[1].pc = "split2"
            /\ Top(stack) = NewFrame(51, 100) )
          => ( /\ StoredBlocks("Transfer") = <<1, 3, 3>>
               /\ rpcCount = 2
               /\ RangeOf(rpc) = <<1, 50>> ) )
  /\ [] ( ( /\ ScenarioC
            /\ cbState = "returned"
            /\ lastReturn.how = "success"
            /\ RangeOf(lastReturn) = <<51, 100>> )
          => ( /\ StoredBlocks("Transfer") = <<1, 3, 3, 100>>
               /\ rpcCount = 3 ) )

\* C14: a getLogs failure of the too-many-logs kind on a range of one block
\* ends the invocation in the same step, as given up: the invocation returns
\* without throwing, it started no invocation for a half, and no invocation
\* on that block is left that could request it again.
C14_SingleBlockGivenUp ==
  [][ ( /\ GetLogsAnswered
        /\ TooManyLogsDescription(rpc'.outcome)
        /\ rpc'.fromBlock = rpc'.toBlock )
      => ( /\ lastReturn'.how = "skip"
           /\ RangeOf(lastReturn') = RangeOf(rpc')
           /\ cbState' # "threw"
           /\ \A i \in 1..Len(stack') :
                /\ RangeOf(stack'[i]) # RangeOf(rpc')
                /\ ( stack'[i].pc \in {"split1", "split2"} =>
                       ( i <= Len(stack) /\ RangeOf(stack[i]) = RangeOf(stack'[i]) ) ) )
    ]_vars

\* the ranges of a run of the Range Batcher in which no callback fails: none
\* for firstBlock >= lastBlock, otherwise floor((last - first) / (size + 1)) + 1
\* ranges, the k-th starting (k - 1) * (size + 1) blocks after firstBlock and
\* holding size + 1 blocks, or fewer when lastBlock comes first
ExpectedCount ==
  IF firstBlock >= lastBlock THEN 0
  ELSE ((lastBlock - firstBlock) \div (batchSize + 1)) + 1

ExpectedRange(k) ==
  LET from == firstBlock + (k - 1) * (batchSize + 1)
  IN <<from, IF from + batchSize >= lastBlock THEN lastBlock ELSE from + batchSize>>

\* C15: whichever callbacks raised an error, the ranges handed to the callback
\* so far are the first ranges of the run without failures, in order, and when
\* loopThroughBlocks has returned they are all of them; an error of the
\* callback is caught by the loop, which goes on after the failed range.
C15_CallbackErrorSkipsNothing ==
  /\ [] ( lbPc # "idle" =>
            /\ Len(cbCalls) = batchCount
            /\ batchCount <= ExpectedCount
            /\ \A k \in 1..Len(cbCalls) : cbCalls[k] = ExpectedRange(k)
            /\ lbPc = "done" => ( batchCount = ExpectedCount /\ lbResult = lastBlock ) )
  /\ [][ cbState = "threw" =>
           /\ lbCaught' = lbCaught + 1
           /\ lbPc' = "loop"
           /\ currentBlock' = nextBlock + 1 ]_vars

\* loopThroughBlocks has returned after three ranges, the callback having
\* raised an error on each of them
C15_Witness ==
  /\ lbPc = "done"
  /\ Len(cbCalls) = 3
  /\ lbCaught = 3
  /\ processedBlocks = 0

\* the invocations with a getLogs request out, or about to send one
Requesting == { i \in 1..Len(stack) : stack[i].pc = "fetch" }

\* C16: during the backfill the work is strictly sequential.  Only the
\* innermost invocation of processContractEventRange is active (requesting,
\* waiting to retry or saving logs), every other one waits for a half, so at
\* most one getLogs request is out; invocations exist only while the callback
\* of the current batch is running on its one current unit; the callback is
\* invoked for the next batch only when the previous callback has completed
\* and left no invocation behind; and a unit starts only when the outermost
\* invocation of the unit before it returns (every invocation of that unit is
\* then done or in its last step).
C16_OneRequestAtATime ==
  /\ [] ( mainPc = "backfill" =>
            /\ Cardinality(Requesting) <= 1
            /\ \A i \in 1..(Len(stack) - 1) : stack[i].pc \in {"split1", "split2"}
            /\ stack # <<>> =>
                 ( /\ Top(stack).pc \in {"fetch", "sleep", "logs"}
                   /\ lbPc = "cb"
                   /\ cbState = "running"
                   /\ unit # <<0, 0>> )
            /\ ( lbPc # "cb" \/ cbState # "running" ) => ( stack = <<>> /\ unit = <<0, 0>> ) )
  /\ [][ /\ batchCount' = batchCount + 1 =>
              ( stack = <<>> /\ unit = <<0, 0>> /\ cbState = "none" /\ stack' = <<>> )
         /\ ( unit # <<0, 0>> /\ unit' # <<0, 0>> /\ unit' # unit ) =>
              ( /\ \A i \in 1..(Len(stack) - 1) : stack[i].pc = "split2"
                /\ unit' = NextUnit(unit)
                /\ lastReturn'.unit = unit
                /\ stack' = <<NewFrame(cbCalls[Len(cbCalls)][1], cbCalls[Len(cbCalls)][2])>> )
       ]_vars

\* the second unit of a batch, the first having returned, is waiting to retry
\* the second half of its range
C16_Witness ==
  /\ mainPc = "backfill"
  /\ unit = <<2, 1>>
  /\ lastReturn.unit = <<2, 1>>
  /\ Len(stack) = 2
  /\ stack[1].pc = "split2"
  /\ Top(stack).pc = "sleep"
  /\ Top(stack).attempts = 1

\* C17: once processHistoricalEvents has been called (a start block is
\* configured) with no contract, with no event, or with a start block above
\* the chain height, it has raised an error, and the Range Batcher was never
\* entered: no callback ran, no getLogs request was sent, no insert was
\* attempted and no table holds a row.
C17_InvalidInputFailsFast ==
  ( /\ mainPc \notin {"start", "ready"}
    /\ Truthy(startBlock)
    /\ ( \/ contractAddresses = <<>>
         \/ abis = <<>>
         \/ startBlock > chainHeight ) )
  => ( /\ phePc = "threw"
       /\ mainPc = "failed"
       /\ lbPc = "idle"
       /\ cbCalls = <<>>
       /\ stack = <<>>
       /\ rpcCount = 0
       /\ rpc = NoExchange
       /\ lastSave = NoSave
       /\ \A t \in DOMAIN tables : tables[t].rows = <<>> )

\* the run with start block 3 at chain height 2 has failed, its table created
C17_Witness ==
  /\ phePc = "threw"
  /\ mainPc = "failed"
  /\ startBlock = 3
  /\ chainHeight = 2
  /\ TableName("Transfer") \in DOMAIN tables
  /\ contractAddresses # <<>>

\* the error counter of the current batch
Errors(sts) ==
  IF CurrentBatch \in DOMAIN sts THEN sts[CurrentBatch].errors ELSE 0

\* one more occurrence of the throttled message was counted
CountedOnce(key) ==
  /\ key \in DOMAIN throttledMessages'
  /\ IF key \in DOMAIN throttledMessages
     THEN throttledMessages'[key] \in {throttledMessages[key] + 1, 0}
     ELSE throttledMessages'[key] = 1

C19_MissingTableNoOp ==
  [][ ( SaveCalled /\ TableName(lastSave'.eventName) \notin DOMAIN tables ) =>
        /\ tables' = tables
        /\ cbState' # "threw"
        /\ mainPc' = mainPc
        /\ dbFailures' = dbFailures =>
             ( /\ lastSave'.outcome = "no table"
               /\ stats' = stats
               /\ throttledMessages' = throttledMessages )
    ]_vars

\* the creation of the Transfer table failed at start-up, and the backfill
\* and a subscription have each handed a log to saveLogToDatabase since
C19_Witness ==
  /\ mainPc = "watching"
  /\ phePc = "done"
  /\ DOMAIN tables = {}
  /\ lastSave.outcome = "no table"
  /\ lastSave.caller = "live"
  /\ lastSave.n >= 2
  /\ dbFailures = 0

\* the three indexes of an event table
EventIndexes == {IdxContract, IdxBlock, IdxUnique}

\* generateDatabaseSchemas ran in this step, and the storage failed on no schema
SchemasGenerated ==
  /\ mainPc = "start"
  /\ mainPc' = "ready"
  /\ lastSchemas'.ioFailed = 0

\* C20: generateDatabaseSchemas on a descriptor it was invoked for before (in
\* an earlier run on the same database file, or earlier in the same list) does
\* not fail: every schema is executed and counted.  It leaves one table for
\* the event, with its three indexes, and a table that was there before keeps
\* its columns and its rows.
C20_SchemasIdempotent ==
  [][ SchemasGenerated
      => /\ lastSchemas'.createdCount = Len(abis)
         /\ DOMAIN tables' = { TableName(abis[i].name) : i \in 1..Len(abis) }
         /\ \A t \in DOMAIN tables' :
              /\ tables'[t].indexes = EventIndexes
              /\ t \in DOMAIN tables => tables'[t] = tables[t] ]_vars

\* C20 witness: a run has just synthesized the schemas, without a failure, on a
\* database whose table holds rows of an earlier run
C20_Witness ==
  /\ mainPc = "ready"
  /\ lastSave.n = 0
  /\ lastSchemas.ioFailed = 0
  /\ lastSchemas.createdCount = Len(abis)
  /\ TableName("Transfer") \in DOMAIN tables
  /\ Len(tables[TableName("Transfer")].rows) >= 2
  /\ tables[TableName("Transfer")].indexes = EventIndexes

\* the type tag is an array type: it ends with a bracket
IsArrayType(type) == type[Len(type)] = "]"

\* the number a run of digit tokens writes
RECURSIVE ParseDigits(_)
ParseDigits(digits) ==
  IF digits = <<>> THEN 0
  ELSE 10 * ParseDigits(SubSeq(digits, 1, Len(digits) - 1))
         + (CHOOSE d \in 0..9 : DigitToken[d + 1] = digits[Len(digits)])

\* the bit-width of an elementary integer type
BitWidth(type) == ParseDigits(Tail(type))

\* the column type the mapping specifies for a type tag
SpecifiedColumnType(type) ==
  IF IsArrayType(type) THEN "TEXT"
  ELSE IF type[1] \in {"uint", "int"}
  THEN IF BitWidth(type) <= 64 THEN "INTEGER" ELSE "TEXT"
  ELSE IF type = AddressType THEN "TEXT"
  ELSE IF type = BoolType THEN "BOOLEAN"
  ELSE IF type[1] = "bytes" THEN "BLOB"
  ELSE "TEXT"

\* C21: the column type getSqlTypeFromEthType returns for a type tag is the
\* one of the mapping: integers of at most 64 bits INTEGER, wider integers
\* TEXT, address TEXT, bool BOOLEAN, bytes BLOB, string TEXT, arrays TEXT.
C21_ColumnTypeFollowsMapping ==
  (call.fn = "getSqlTypeFromEthType" /\ call.done)
    => call.result = SpecifiedColumnType(call.arg)

\* where the two agree: every type but the integers wider than 64 bits whose
\* size is written without 128 or 256, and the arrays of integers and bytes
C21_MappingOfTheOtherTypes ==
  (/\ call.fn = "getSqlTypeFromEthType"
   /\ call.done
   /\ ~(IsArrayType(call.arg) /\ call.arg[1] \in {"uint", "int", "bytes"})
   /\ ~(/\ ~IsArrayType(call.arg)
        /\ call.arg[1] \in {"uint", "int"}
        /\ BitWidth(call.arg) > 64
        /\ ~Includes(call.arg, <<"2", "5", "6">>)
        /\ ~Includes(call.arg, <<"1", "2", "8">>)))
    => call.result = SpecifiedColumnType(call.arg)

\* the decimal string "1000000000000000000"
OneEtherText ==
  <<"1", "0", "0", "0", "0", "0", "0", "0", "0", "0", "0", "0", "0", "0", "0", "0", "0",
    "0", "0">>

\* the rows of a sequence that hold the Transfer of 10^18 units
EtherRows(rows) ==
  { i \in 1..Len(rows) : rows[i].transaction_hash = EtherLog.transactionHash }

\* the API has answered a request for the event's rows
EventsAnswered ==
  /\ call.fn = "GET /api/events"
  /\ call.done

\* C22: the uint256 argument 1000000000000000000 is stored as the decimal
\* string "1000000000000000000", and a query that returns its row returns that
\* string for it, not a number.
C22_WideIntegerKeptAsText ==
  /\ \A t \in DOMAIN tables : \A i \in EtherRows(tables[t].rows) :
       tables[t].rows[i].params[3] = <<"text", OneEtherText>>
  /\ EventsAnswered
       => \A i \in EtherRows(call.result.data) :
            call.result.data[i].params[3] = <<"string", OneEtherText>>

\* C22 witness: a query has returned the row of the Transfer of 10^18 units
C22_Witness ==
  /\ EventsAnswered
  /\ EtherRows(call.result.data) # {}

\* the stored rows of every table are still there, as they were, after the step
RowsKept ==
  \A t \in DOMAIN tables :
    /\ t \in DOMAIN tables'
    /\ Len(tables'[t].rows) >= Len(tables[t].rows)
    /\ SubSeq(tables'[t].rows, 1, Len(tables[t].rows)) = tables[t].rows

\* C25: writes are append-only.  No step (an insert, a duplicate or a failed
\* insert, a query, a schema synthesis on a database that has the tables)
\* changes or removes a stored row: the rows of a table only grow.
C25_AppendOnly == [][RowsKept]_vars

\* C25 witness: in one run on a database that already held rows, a row was
\* added, a duplicate was refused and a query was answered
C25_Witness ==
  /\ EventsAnswered
  /\ call.arg.eventName = "Transfer"
  /\ lastSave.outcome = "duplicate"
  /\ lastSave.n = 2
  /\ lastSchemas.createdCount = Len(abis)
  /\ TableName("Transfer") \in DOMAIN tables
  /\ Len(tables[TableName("Transfer")].rows) >= 3

\* GET /api/events was answered in this step, the query not failing
EventsRequest(eventName) ==
  /\ mainPc = "ready"
  /\ UNCHANGED <<mainPc, tables, lastSave>>
  /\ call'.fn = "GET /api/events"
  /\ call'.arg.eventName = eventName
  /\ ~call'.arg.ioFails

\* every stored row is in the response
AllRowsReturned ==
  \A t \in DOMAIN tables : \A i \in 1..Len(tables[t].rows) :
    \E k \in 1..Len(call'.result.data) :
      /\ call'.result.data[k].transaction_hash = tables[t].rows[i].transaction_hash
      /\ call'.result.data[k].log_index = tables[t].rows[i].log_index

\* C27: GET /api/events without an event name returns all events indexed so
\* far: the response data holds every stored row.
C27_GetAllEvents == [][EventsRequest("") => AllRowsReturned]_vars

\* with the name of the event given, the response holds the rows of its table
C27_GetEventsByName == [][EventsRequest("Transfer") => AllRowsReturned]_vars

\* the number of delivered logs onLogs still has to save
RECURSIVE PendingCount(_)
PendingCount(deliveriesInProgress) ==
  IF deliveriesInProgress = <<>> THEN 0
  ELSE Len(Head(deliveriesInProgress).pending) + PendingCount(Tail(deliveriesInProgress))

\* onLogs made a saveLogToDatabase call in this step, and it failed
LiveSaveFailed ==
  /\ lastSave'.n = lastSave.n + 1
  /\ lastSave'.caller = "live"
  /\ lastSave'.outcome = "error"

\* onError was invoked in this step
ErrorReported ==
  /\ mainPc = "watching"
  /\ UNCHANGED <<mainPc, lastSave, deliveries>>
  /\ call'.fn = "onError"

\* the hashes of the stored rows of the Transfer table
StoredHashes ==
  IF TableName("Transfer") \in DOMAIN tables
  THEN { tables[TableName("Transfer")].rows[i].transaction_hash :
           i \in 1..Len(tables[TableName("Transfer")].rows) }
  ELSE {}

\* C23: in the Live Watcher a failed save leaves the other logs of its
\* delivery to be saved (those that come after it stay pending, those of the
\* other deliveries too), and an error reported on a subscription is only
\* logged: no subscription is cancelled, nothing pending is dropped, and as
\* long as the watcher runs every (contract, event) subscription is active.
C23_LiveErrorsAreContained ==
  /\ [][LiveSaveFailed
          => /\ watchers' = watchers
             /\ PendingCount(inflight') =
                  PendingCount(inflight)
                    + (IF deliveries' = deliveries THEN 0 - 1 ELSE lastSave'.left)]_vars
  /\ [][ErrorReported
          => /\ watchers' = watchers
             /\ inflight' = inflight
             /\ tables' = tables]_vars
  /\ [](mainPc = "watching" => watchers = Subscriptions)

\* C23 witness: the first log of a delivery of two could not be saved and the
\* second was inserted; the subscription of the first contract reported an
\* error, and afterwards the subscription of the second contract delivered a
\* log, which was inserted
C23_Witness ==
  /\ call.fn = "onError"
  /\ call.arg = <<1, 1>>
  /\ call.result.deliveries < deliveries
  /\ call.result.saves < lastSave.n
  /\ lastSave.caller = "live"
  /\ lastSave.outcome = "inserted"
  /\ lastSave.transactionHash = "0xt2"
  /\ dbFailures = 1
  /\ "0xt3" \in StoredHashes
  /\ "0xt1" \notin StoredHashes

\* C24: setupEventWatchers leaves one subscription (and one cancellation
\* handle) per (contract, event) pair; the shutdown cancels every one of
\* them, and from then on no callback runs: no delivery, no save, no row.
C24_ShutdownEndsSubscriptions ==
  /\ [](mainPc = "watching"
          => Cardinality(watchers) = Len(contractAddresses) * Len(abis))
  /\ [](mainPc = "stopped" => watchers = {})
  /\ [][mainPc = "stopped"
          => UNCHANGED <<watchers, deliveries, inflight, tables, lastSave, stats>>]_vars

\* C24 witness: the watcher of two contracts was shut down after it had
\* inserted a row, while a delivery was still being processed
C24_Witness ==
  /\ mainPc = "stopped"
  /\ Len(contractAddresses) = 2
  /\ lastSave.caller = "live"
  /\ lastSave.outcome = "inserted"
  /\ inflight # <<>>

\* parseCommandLineArgs has returned, or has ended the process
ArgsParsed ==
  /\ call.fn = "parseCommandLineArgs"
  /\ call.done

\* --contract, --event and --network are given, with well-formed values
CommandLineComplete(argv) ==
  /\ argv.contract # <<>>
  /\ \A i \in 1..Len(argv.contract[1]) : ValidContract(argv.contract[1][i])
  /\ argv.event = <<<<TransferSignature>>>>
  /\ argv.network = <<NetworkName("mainnet")>>
  /\ argv.profile = <<>>

\* the action is 'run', on the contracts, events and network of the command line
RunsCommandLine(argv, parsed) ==
  /\ parsed.action = "run"
  /\ parsed.config.contracts = argv.contract
  /\ parsed.config.events = argv.event
  /\ parsed.config.network = <<NetworkObject(argv.network[1][2])>>

\* C26: with --contract, --event and --network on the command line, no
\* configuration file and no BINDEXER_ variable, parseCommandLineArgs returns
\* action 'run' with the contracts, events and network of the command line.
C26_CommandLineOnly ==
  (/\ ArgsParsed
   /\ CommandLineComplete(call.arg.argv)
   /\ call.arg.file = <<>>
   /\ call.arg.env = DefaultConfig)
    => RunsCommandLine(call.arg.argv, call.result)

\* the same command line over a configuration file that is valid by itself
C26_CommandLineOverFile ==
  (/\ ArgsParsed
   /\ CommandLineComplete(call.arg.argv)
   /\ call.arg.file # <<>>)
    => RunsCommandLine(call.arg.argv, call.result)

\* the real-time watchers are being set up, or have been
WatchersReached == mainPc \in {"setup", "watching", "stopped"}

\* processHistoricalEvents has run from the start block to the chain height,
\* and has returned
Backfilled ==
  /\ phePc = "done"
  /\ firstBlock = startBlock
  /\ lastBlock = chainHeight

\* C28: for every start block the configuration specifies, the watchers are
\* set up only after processHistoricalEvents has processed the blocks from
\* that start block up to the chain height.
C28_ConfiguredStartBlockIsBackfilled ==
  ( WatchersReached /\ startBlock # NoValue ) => Backfilled

\* C28 for the start blocks other than 0: the backfill from the start block
\* to the chain height has returned before the watchers are set up; with no
\* start block, or the start block 0, processHistoricalEvents is never called.
C28_NonZeroStartBlockIsBackfilled ==
  /\ ( WatchersReached /\ Truthy(startBlock) ) => Backfilled
  /\ ~Truthy(startBlock) => ( phePc = "idle" /\ lbPc = "idle" /\ rpcCount = 0 )
  /\ watchers # {} => mainPc \in {"watching", "stopped"}

\* the watchers run although the configured start block 0 was never backfilled
C28_StartBlockZeroSkipped ==
  /\ mainPc = "watching"
  /\ startBlock = 0
  /\ phePc = "idle"
  /\ watchers # {}


\* processHistoricalEvents enters the Range Batcher
BackfillEntersBatcher == mainPc = "ready" /\ mainPc' = "backfill"

\* C29: the batch size with which the backfill interval is split is the
\* batchSize of the configuration object: processHistoricalEvents hands the
\* configured value to the Range Batcher.
C29_ConfiguredBatchSize ==
  [][ BackfillEntersBatcher =>
        /\ lbPc' = "loop"
        /\ batchSize' = bindexerConfig.batchSize ]_vars

\* what the backfill is split with instead: the Range Batcher's own default,
\* whatever batchSize the configuration holds
C29_BatcherDefaultBatchSize ==
  [][ BackfillEntersBatcher =>
        /\ lbPc' = "loop"
        /\ firstBlock' = startBlock
        /\ lastBlock' = chainHeight
        /\ batchSize' = DefaultBatchSize ]_vars

\* the blocks 1 to 3 went to the callback as one range although the
\* configuration asks for batches of 2
C29_ConfiguredSizeIgnored ==
  /\ mainPc = "backfill"
  /\ bindexerConfig.batchSize = 2
  /\ cbCalls = << <<1, 3>> >>


\* the most attempts an invocation of processContractEventRange may make
\* under the ceiling maxRetries, and the number it has made when it gave up
AttemptsWithin(maxRetries) ==
  /\ \A i \in 1..Len(stack) : stack[i].attempts <= maxRetries + 1
  /\ lastReturn.how = "fail" => lastReturn.attempts = maxRetries + 1

\* C30: the attempt counter of a backfill unit starts at 0 and its ceiling is
\* the maxRetries of the configuration's retry policy: an invocation never
\* makes more than maxRetries + 1 attempts, and one that gave up because its
\* getLogs calls kept failing has made exactly maxRetries + 1 of them.
C30_ConfiguredMaxRetries ==
  /\ \A i \in 1..Len(stack) : stack[i].pc = "fetch" /\ stack[i].retryCount = 0
                                => stack[i].attempts = 0
  /\ AttemptsWithin(bindexerConfig.retry.maxRetries)

\* the ceiling in force instead: the default of processContractEventRange's
\* own parameter, whatever the retry policy of the configuration holds
C30_DriverDefaultMaxRetries ==
  /\ \A i \in 1..Len(stack) : stack[i].pc = "fetch" /\ stack[i].retryCount = 0
                                => stack[i].attempts = 0
  /\ AttemptsWithin(DefaultMaxRetries)

\* a unit gave up after four attempts although the configuration allows a
\* single retry
C30_ConfiguredCeilingIgnored ==
  /\ bindexerConfig.retry.maxRetries = 1
  /\ lastReturn.how = "fail"
  /\ lastReturn.attempts = 4


\* a getLogs request failed in this step with the description d while the
\* invocation had attempts left
FailsWithAttemptsLeft ==
  /\ GetLogsAnswered
  /\ Top(stack).retryCount + 1 <= DefaultMaxRetries

\* the invocation waits `delay` ms and will request the same range again
WaitsThenRetries(delay) ==
  /\ Len(stack') = Len(stack)
  /\ Top(stack').pc = "sleep"
  /\ Top(stack').delay = delay
  /\ Top(stack').fromBlock = Top(stack).fromBlock
  /\ Top(stack').toBlock = Top(stack).toBlock
  /\ Top(stack').retryCount = Top(stack).retryCount + 1

\* the wait is over: the same range is requested again
RetriesAfterWait ==
  ( stack # <<>> /\ Top(stack).pc = "sleep" /\ Top(stack).retryCount <= DefaultMaxRetries )
    => /\ Len(stack') = Len(stack)
       /\ Top(stack').pc = "fetch"
       /\ Top(stack').fromBlock = Top(stack).fromBlock
       /\ Top(stack').toBlock = Top(stack).toBlock

\* C31: a getLogs failure whose description has "rate limit" or "429" in it,
\* with attempts left, makes processContractEventRange wait 2^attempt seconds
\* (2 s, 4 s, 8 s) and then request the same range again.
C31_RateLimitBackoff ==
  [][ /\ ( FailsWithAttemptsLeft /\ RateLimitDescription(rpc'.outcome) )
           => WaitsThenRetries((2 ^ (Top(stack).retryCount + 1)) * 1000)
      /\ RetriesAfterWait ]_vars

\* C31 for the descriptions with "429" and without "rate limit" and "Log
\* response size exceeded", which getContractLogs passes on inside its own
\* message: the wait is 2 s, 4 s, 8 s and the same range is retried.
C31_Http429Backoff ==
  [][ /\ ( /\ FailsWithAttemptsLeft
           /\ Includes(rpc'.outcome, <<"4", "2", "9">>)
           /\ ~Includes(rpc'.outcome, <<"rate", "limit">>)
           /\ ~Includes(rpc'.outcome, <<"Log", "response", "size", "exceeded">>) )
           => WaitsThenRetries((2 ^ (Top(stack).retryCount + 1)) * 1000)
      /\ RetriesAfterWait ]_vars

\* a "rate limit" failure was the second of its invocation and the wait
\* before the third attempt is 2 s, not 4 s
C31_LinearWaitOnRateLimit ==
  /\ stack # <<>>
  /\ Top(stack).pc = "sleep"
  /\ Top(stack).retryCount = 2
  /\ Top(stack).delay = 2000
  /\ Includes(rpc.outcome, <<"rate", "limit">>)


\* a failure description that is neither of the rate-limit kind nor of the
\* too-many-logs kind
OtherDescription(d) ==
  /\ d \in ClientErrors
  /\ ~RateLimitDescription(d)
  /\ ~TooManyLogsDescription(d)

\* the invocation on top of the stack ends as failed in this step: nothing
\* is raised, no wait, no further request on its range
EndsAsFailed ==
  /\ lastReturn'.how = "fail"
  /\ lastReturn'.fromBlock = Top(stack).fromBlock
  /\ lastReturn'.toBlock = Top(stack).toBlock
  /\ lastReturn'.unit = unit
  /\ cbState' # "threw"
  /\ \A i \in 1..Len(stack') : stack'[i].pc # "sleep"

\* C32: a getLogs failure that is neither a rate limit nor too-many-logs, with
\* attempts left, makes processContractEventRange wait 1000 ms * attempt (1 s,
\* 2 s, 3 s) and retry the same range; with the attempts exhausted the unit
\* ends as failed, without another wait and without raising.
C32_OtherErrorBackoff ==
  [][ /\ ( GetLogsAnswered /\ OtherDescription(rpc'.outcome) ) =>
           IF Top(stack).retryCount + 1 <= DefaultMaxRetries
           THEN WaitsThenRetries(1000 * (Top(stack).retryCount + 1))
           ELSE EndsAsFailed
      /\ RetriesAfterWait ]_vars

\* C32 for the contracts whose address has no "429" in it
C32_OtherErrorBackoffPlainAddress ==
  [][ /\ ( /\ GetLogsAnswered
           /\ OtherDescription(rpc'.outcome)
           /\ ~Includes(rpc'.address, <<"4", "2", "9">>) ) =>
           IF Top(stack).retryCount + 1 <= DefaultMaxRetries
           THEN WaitsThenRetries(1000 * (Top(stack).retryCount + 1))
           ELSE EndsAsFailed
      /\ RetriesAfterWait ]_vars

\* a refused connection to the contract with "429" in its address is waited
\* on for 2 s after the first failure
C32_ExponentialWaitOnOtherError ==
  /\ stack # <<>>
  /\ Top(stack).pc = "sleep"
  /\ Top(stack).retryCount = 1
  /\ Top(stack).delay = 2000
  /\ rpc.outcome = ErrConnection


\* an invocation of processContractEventRange is entered in this step: for a
\* half of a split range, or for the next unit
InvocationEntered ==
  /\ stack' # <<>>
  /\ \/ Len(stack') > Len(stack)
     \/ lastReturn' # lastReturn

\* C33: each half of a split range runs with an attempt counter of its own
\* that starts at 0: an invocation is entered with no attempt made, a getLogs
\* request counts for the invocation that sent it and for no other, and an
\* invocation gives up only after maxRetries + 1 attempts of its own, so each
\* half may make maxRetries + 1 attempts whatever its parent and the other
\* half have used.
C33_HalvesCountAfresh ==
  /\ [][ /\ InvocationEntered =>
              Top(stack') = NewFrame(Top(stack').fromBlock, Top(stack').toBlock)
         /\ GetLogsAnswered =>
              /\ \A i \in 1..(Len(stack) - 1) :
                    i < Len(stack') =>
                      /\ stack'[i].attempts = stack[i].attempts
                      /\ stack'[i].retryCount = stack[i].retryCount
              /\ \/ /\ Len(stack') >= Len(stack)
                    /\ stack'[Len(stack)].fromBlock = Top(stack).fromBlock
                    /\ stack'[Len(stack)].toBlock = Top(stack).toBlock
                    /\ stack'[Len(stack)].attempts = Top(stack).attempts + 1
                    /\ stack'[Len(stack)].retryCount \in
                         {Top(stack).retryCount, Top(stack).retryCount + 1}
                 \/ /\ lastReturn'.attempts = Top(stack).attempts + 1
                    /\ lastReturn'.fromBlock = Top(stack).fromBlock
                    /\ lastReturn'.toBlock = Top(stack).toBlock
       ]_vars
  /\ [] AttemptsWithin(DefaultMaxRetries)

\* the range was split after two attempts, its first half gave up after four
\* attempts of its own, and the second half has made three
C33_Witness ==
  /\ Len(stack) = 2
  /\ stack[1].pc = "split2"
  /\ stack[1].attempts = 2
  /\ lastReturn.how = "fail"
  /\ lastReturn.attempts = 4
  /\ lastReturn.toBlock < Top(stack).fromBlock
  /\ Top(stack).attempts = 3
  /\ Top(stack).pc = "sleep"


\* the last saveLogToDatabase call was made by onLogs
LiveCall == lastSave.caller = "live"

\* C34: in every delivery to a subscription each log is counted as a success
\* or as an error, the two counts sum to the number of logs handled so far,
\* and a log whose insert failed is counted as an error, not as a success.
C34_LiveCounts ==
  LiveCall =>
    /\ lastSave.processed + lastSave.errors + lastSave.left = lastSave.delivered
    /\ lastSave.outcome = "error" => lastSave.errors >= 1

\* what onLogs counts: every log as a success and none as an error, the
\* failed inserts included
C34_EveryLogCountedAsSuccess ==
  LiveCall =>
    /\ lastSave.processed + lastSave.errors + lastSave.left = lastSave.delivered
    /\ lastSave.errors = 0

\* a delivery of one log whose insert failed ended with 1 success, 0 errors
C34_FailedInsertCountedAsSuccess ==
  /\ LiveCall
  /\ lastSave.outcome = "error"
  /\ lastSave.delivered = 1
  /\ lastSave.processed = 1
  /\ lastSave.errors = 0


\* logBatchSummary is called in this step, for a unit whose saves were tracked
SummaryCalledAfterSaves ==
  /\ lastSummary'.n = lastSummary.n + 1
  /\ lastSummary'.tracked # NoStats

\* C35: the batch summary logged once a unit's logs have been processed
\* reports the numbers of new, duplicate and failed events that
\* saveLogToDatabase tracked, and those statistics are reset by it.
C35_SummaryReportsTrackedStats ==
  [][ SummaryCalledAfterSaves =>
        /\ lastSummary'.summary.logged
        /\ lastSummary'.summary.stats = lastSummary'.tracked
        /\ CurrentBatch \notin DOMAIN stats' ]_vars

\* what happens instead: nothing is logged, and the statistics tracked under
\* 'current_batch' stay as they were, for the next unit of the batch to add to
C35_SummaryNeverLogged ==
  /\ [] ( ~lastSummary.summary.logged )
  /\ [][ SummaryCalledAfterSaves =>
           /\ CurrentBatch \in DOMAIN stats'
           /\ stats'[CurrentBatch] = lastSummary'.tracked ]_vars

\* the unit of the first contract stored two logs and no summary was logged;
\* the unit of the second contract is running on top of its statistics
C35_StatsCarriedOver ==
  /\ lastSummary.n = 1
  /\ ~lastSummary.summary.logged
  /\ lastSummary.tracked.processed = 2
  /\ unit = <<2, 1>>
  /\ CurrentBatch \in DOMAIN stats
  /\ stats[CurrentBatch].processed = 2


\* the ranges that hold the block b
RangesWith(b) == { i \in 1..Len(cbCalls) : cbCalls[i][1] <= b /\ b <= cbCalls[i][2] }

\* C36: for firstBlock < lastBlock and batchSize >= 1 the callback is invoked
\* on ranges [c_i, n_i] with c_1 = firstBlock, n_i = min(c_i + batchSize,
\* lastBlock) and c_(i+1) = n_i + 1; every range holds at most batchSize + 1
\* blocks, no block is in two ranges, and when loopThroughBlocks has returned
\* the last range ends at lastBlock and every block of [firstBlock, lastBlock]
\* is in exactly one range.
C36_RangesCoverOnce ==
  ( lbPc # "idle" /\ firstBlock < lastBlock /\ batchSize >= 1 ) =>
    /\ cbCalls # <<>> => cbCalls[1][1] = firstBlock
    /\ \A i \in 1..Len(cbCalls) :
         /\ cbCalls[i][2] = IF cbCalls[i][1] + batchSize < lastBlock
                            THEN cbCalls[i][1] + batchSize ELSE lastBlock
         /\ cbCalls[i][1] <= cbCalls[i][2]
         /\ cbCalls[i][2] - cbCalls[i][1] + 1 <= batchSize + 1
         /\ i < Len(cbCalls) => cbCalls[i + 1][1] = cbCalls[i][2] + 1
    /\ lbPc = "done" =>
         /\ cbCalls # <<>>
         /\ cbCalls[Len(cbCalls)][2] = lastBlock
         /\ \A b \in firstBlock..lastBlock : Cardinality(RangesWith(b)) = 1

\* loopThroughBlocks(0, 3, cb, 1n) has returned after the ranges [0,1], [2,3]
C36_Witness ==
  /\ lbPc = "done"
  /\ firstBlock = 0
  /\ lastBlock = 3
  /\ batchSize = 1
  /\ cbCalls = << <<0, 1>>, <<2, 3>> >>


\* a getLogs request failed in this step
GetLogsFailed == GetLogsAnswered /\ rpc'.outcome \in ClientErrors

\* C37: an invocation of processContractEventRange requests its own range at
\* most maxRetries + 1 times: every failed request, of the rate-limit kind or
\* of any other, adds one to the one counter of the invocation that sent it,
\* the requests made are the failures counted (plus the one that succeeded),
\* and an invocation waits only while the counter leaves it an attempt.
C37_OneAttemptCounter ==
  /\ [] ( \A i \in 1..Len(stack) :
            /\ stack[i].attempts <= DefaultMaxRetries + 1
            /\ stack[i].attempts =
                 IF stack[i].pc = "logs" THEN stack[i].retryCount + 1
                 ELSE stack[i].retryCount
            /\ stack[i].pc = "sleep" => stack[i].retryCount <= DefaultMaxRetries )
  /\ [][ GetLogsFailed =>
           /\ rpc'.fromBlock = Top(stack).fromBlock
           /\ rpc'.toBlock = Top(stack).toBlock
           /\ \/ /\ Len(stack') >= Len(stack)
                 /\ stack'[Len(stack)].fromBlock = Top(stack).fromBlock
                 /\ stack'[Len(stack)].toBlock = Top(stack).toBlock
                 /\ stack'[Len(stack)].retryCount = Top(stack).retryCount + 1
              \/ /\ lastReturn'.how \in {"fail", "skip"}
                 /\ lastReturn'.fromBlock = Top(stack).fromBlock
                 /\ lastReturn'.toBlock = Top(stack).toBlock
                 /\ lastReturn'.attempts = Top(stack).retryCount + 1 ]_vars

\* an invocation waits 3 s before its fourth and last attempt: the failure
\* just counted, a refused connection, was its third of whatever kinds
C37_Witness ==
  /\ Len(stack) = 1
  /\ Top(stack).pc = "sleep"
  /\ Top(stack).retryCount = 3
  /\ Top(stack).delay = 3000
  /\ rpc.outcome = ErrConnection
  /\ ~Includes(rpc.address, <<"4", "2", "9">>)


\* the historical backfill is in progress
BackfillInProgress == mainPc = "backfill" \/ phePc = "running"

\* C38: no subscription exists while the historical backfill is in progress,
\* and none has delivered anything before: setupEventWatchers is invoked only
\* when processHistoricalEvents has returned (or was not called), with no
\* invocation, no batch and no request of the backfill left; and a step of
\* the Live Watcher changes nothing of the backfill's state.
C38_NoSubscriptionDuringBackfill ==
  /\ [] ( BackfillInProgress =>
            /\ watchers = {}
            /\ inflight = <<>>
            /\ deliveries = 0
            /\ lastSave.caller # "live" )
  /\ [][ watchers' # watchers =>
           /\ ~BackfillInProgress
           /\ phePc \in {"idle", "done"}
           /\ lbPc \in {"idle", "done"}
           /\ stack = <<>>
           /\ cbState = "none" ]_vars
  /\ [][ ( lastSave'.caller = "live" /\ lastSave'.n # lastSave.n ) =>
           /\ ~BackfillInProgress
           /\ UNCHANGED <<lbVars, phePc, batchNumber, unit, drvVars, lastSummary>> ]_vars

\* the backfill has returned, the watchers are set up, and a subscription
\* has stored a row after at least one earlier save
C38_Witness ==
  /\ mainPc = "watching"
  /\ phePc = "done"
  /\ lbPc = "done"
  /\ watchers # {}
  /\ lastSave.caller = "live"
  /\ lastSave.outcome = "inserted"
  /\ lastSave.n >= 2


\* the branch of the state machine a decision of the catch block belongs to:
\* RateLimited (the wait is 2^attempt s), TooManyLogs (split, or skip of a
\* single block), OtherError (the wait is 1 s * attempt) or Exhausted
BranchOf(todo, retryCount) ==
  CASE todo.do \in {"split", "skip"} -> "TooManyLogs"
    [] todo.do = "retry" /\ todo.delay = (2 ^ retryCount) * 1000 -> "RateLimited"
    [] todo.do = "retry" /\ todo.delay # (2 ^ retryCount) * 1000 -> "OtherError"
    [] OTHER -> "Exhausted"

\* the catch block has decided for both units
Handled == call.fn = "catch" /\ call.done

\* the unit's address or block range has the characters 429 in it
Has429(u) ==
  \/ Includes(u.address, <<"4", "2", "9">>)
  \/ Includes(RangeText(u.fromBlock, u.toBlock), <<"4", "2", "9">>)

\* C39: two units that receive the same getLogs failure, on the same attempt,
\* take the same branch of the state machine, whatever their contract address
\* and block range are.
C39_BranchByDescriptionOnly ==
  Handled =>
    BranchOf(call.result[1], call.arg.retryCount)
      = BranchOf(call.result[2], call.arg.retryCount)

\* C39 for the units with no 429 in their address and block range
C39_BranchByDescriptionWithout429 ==
  ( Handled /\ ~Has429(call.arg.units[1]) /\ ~Has429(call.arg.units[2]) ) =>
    BranchOf(call.result[1], call.arg.retryCount)
      = BranchOf(call.result[2], call.arg.retryCount)

\* a refused connection is an ordinary error for one contract and a rate
\* limit for the other, on the same range
C39_SameFailureTwoBranches ==
  /\ Handled
  /\ call.arg.description = ErrConnection
  /\ call.arg.units[1].fromBlock = call.arg.units[2].fromBlock
  /\ call.arg.units[1].toBlock = call.arg.units[2].toBlock
  /\ BranchOf(call.result[1], call.arg.retryCount) = "OtherError"
  /\ BranchOf(call.result[2], call.arg.retryCount) = "RateLimited"


\* the configuration has at least one contract and one event, every address
\* and signature is well-formed, and the network is known
PassesValidation(config) ==
  /\ config.contracts # <<>>
  /\ Len(config.contracts[1]) >= 1
  /\ \A i \in 1..Len(config.contracts[1]) : ValidContract(config.contracts[1][i])
  /\ config.events # <<>>
  /\ Len(config.events[1]) >= 1
  /\ \A i \in 1..Len(config.events[1]) : ValidEvent(config.events[1][i])
  /\ config.network # <<>>
  /\ config.network[1][2] \in DefaultNetworks

\* parseCommandLineArgs has returned with action 'run'
ReturnedRun == ArgsParsed /\ call.result.action = "run"

\* the command line names a profile that the loaded configuration has
ProfileSelected ==
  /\ call.arg.argv.profile # <<>>
  /\ call.arg.file # <<>>
  /\ call.arg.file[1].profiles # <<>>
  /\ call.arg.file[1].profiles[1][1] = call.arg.argv.profile[1]

\* C40: every configuration that parseCommandLineArgs returns with action
\* 'run' has at least one contract, only well-formed contract addresses, at
\* least one event, only well-formed event signatures, and a known network.
C40_RunConfigIsValidated ==
  ReturnedRun => PassesValidation(call.result.config)

\* C40 for the command lines that select no profile
C40_RunConfigIsValidatedWithoutProfile ==
  ( ReturnedRun /\ ~ProfileSelected ) => PassesValidation(call.result.config)

\* the run is started with the malformed address of the selected profile
C40_ProfileNotValidated ==
  /\ ReturnedRun
  /\ ProfileSelected
  /\ call.arg.argv.contract = <<>>
  /\ call.arg.argv.event = <<>>
  /\ call.arg.argv.network = <<>>
  /\ call.result.config.contracts = <<<<BadAddress>>>>

====
